---- MODULE Spec2Model ----
(***************************************************************************)
(* A model of the neotex front end: the grapheme lexer (crates/lexer), the *)
(* preparse classifier (crates/parser/src/preparse), the DFA tokenizer     *)
(* (crates/parser/src/lexer), the parser's fuel counter and the definition *)
(* resolver (crates/parser/src/expansion).                                 *)
(*                                                                         *)
(* A source text is a sequence of grapheme clusters.  A cluster is written *)
(* as a string; "\r\n" is the one cluster of two chars, and the cluster   *)
(* written "U00E4" is the one non-ASCII letter, a-umlaut (two bytes in     *)
(* UTF-8).  Offsets are byte offsets, as in the code.                      *)
(***************************************************************************)
EXTENDS Integers, Sequences, FiniteSets, TLC

VARIABLES conv, tkz, prs, rsv

vars == <<conv, tkz, prs, rsv>>

(***************************************************************************)
(* Bounds of the model.                                                    *)
(***************************************************************************)
MaxPieces == 3

\* the pieces of a text given to the DFA tokenizer
MaxDfaPieces == 3

\* the tokens of a stream given to the Parser
MaxTokens == 2

(***************************************************************************)
(* Generic helpers.                                                        *)
(***************************************************************************)
Min(a, b) == IF a < b THEN a ELSE b

RECURSIVE Flatten(_)
Flatten(ss) == IF ss = <<>> THEN <<>> ELSE Head(ss) \o Flatten(Tail(ss))

RECURSIVE CountOf(_, _)
CountOf(s, x) ==
    IF s = <<>> THEN 0
    ELSE (IF Head(s) = x THEN 1 ELSE 0) + CountOf(Tail(s), x)

(***************************************************************************)
(* Characters and grapheme clusters.                                       *)
(***************************************************************************)
AsciiLetters ==
    {"a", "c", "d", "e", "f", "i", "m", "n", "o", "r", "t", "u", "v", "w"}

Digits == {"1", "0"}

\* cluster.len(): the number of chars of a grapheme cluster
NChars(g) == IF g = "\r\n" THEN 2 ELSE 1

\* c.bytes().len(): the UTF-8 length of a grapheme cluster
NBytes(g) == IF g \in {"\r\n", "U00E4"} THEN 2 ELSE 1

\* the bytes of a cluster
BytesOf(g) ==
    CASE g = "\r\n" -> <<"\r", "\n">>
      [] g = "U00E4"    -> <<"C3", "A4">>
      [] OTHER      -> <<g>>

RECURSIVE SrcBytes(_)
SrcBytes(gs) == IF gs = <<>> THEN <<>> ELSE BytesOf(Head(gs)) \o SrcBytes(Tail(gs))

\* cluster[0]
FirstChar(g) == IF g = "\r\n" THEN "\r" ELSE g

\* lexer::token::is_whitespace
is_whitespace(ch) == ch \in {" ", "\t"}

\* lexer::token::is_newline
is_newline(ch) == ch \in {"\n", "\r"}

\* char::is_whitespace of the standard library (White_Space)
char_is_whitespace(ch) == ch \in {" ", "\t", "\n", "\r"}

\* char::is_ascii
char_is_ascii(ch) == ch \notin {"U00E4", "U2029", "cont"}

\* char::is_ascii_alphabetic
char_is_ascii_alphabetic(ch) == ch \in AsciiLetters

(***************************************************************************)
(* crates/lexer: Cursor and tokenize.  A scan is described by the index of *)
(* the next cluster to look at (Cursor::first); j > Len(gs) is the end.    *)
(***************************************************************************)
\* Cursor::whitespace: eat_while(one char and is_whitespace)
RECURSIVE whitespace(_, _)
whitespace(gs, j) ==
    IF j > Len(gs) THEN j
    ELSE IF NChars(gs[j]) = 1 /\ is_whitespace(gs[j]) THEN whitespace(gs, j + 1)
    ELSE j

\* Cursor::number
RECURSIVE number(_, _)
number(gs, j) ==
    IF j > Len(gs) THEN j
    ELSE IF FirstChar(gs[j]) \in Digits THEN number(gs, j + 1)
    ELSE j

\* Cursor::word
RECURSIVE word(_, _)
word(gs, j) ==
    IF j > Len(gs) THEN j
    ELSE IF NChars(gs[j]) = 1 /\ char_is_whitespace(gs[j]) THEN j
    ELSE IF NChars(gs[j]) = 1 /\ char_is_ascii(gs[j]) THEN j
    ELSE word(gs, j + 1)

\* Cursor::ascii_word
RECURSIVE ascii_word(_, _)
ascii_word(gs, j) ==
    IF j > Len(gs) THEN j
    ELSE IF NChars(gs[j]) = 1 /\ char_is_whitespace(gs[j]) THEN j
    ELSE IF NChars(gs[j]) = 1 /\ char_is_ascii_alphabetic(gs[j]) THEN ascii_word(gs, j + 1)
    ELSE j

\* Cursor::comment: the comment type found so far and the scan position
RECURSIVE comment(_, _, _)
comment(gs, j, ty) ==
    IF j > Len(gs) THEN [kind |-> ty, next |-> j]
    ELSE IF NChars(gs[j]) = 1 /\ gs[j] = "%" THEN comment(gs, j + 1, "AComment")
    ELSE IF NChars(gs[j]) = 1 /\ is_newline(gs[j]) THEN [kind |-> ty, next |-> j + 1]
    ELSE IF NChars(gs[j]) = 2 /\ FirstChar(gs[j]) = "\r" THEN [kind |-> ty, next |-> j + 1]
    ELSE comment(gs, j + 1, ty)

\* the single-char symbols of Cursor::token_kind
SymbolKind(ch) ==
    CASE ch = "{" -> "OpenBrace"
      [] ch = "}" -> "CloseBrace"
      [] ch = "(" -> "OpenParen"
      [] ch = ")" -> "CloseParen"
      [] ch = "[" -> "OpenBracket"
      [] ch = "]" -> "CloseBracket"
      [] ch = "*" -> "Star"
      [] ch = "." -> "Dot"
      [] ch = ";" -> "Semicolon"
      [] ch = "," -> "Comma"
      [] ch = ":" -> "Colon"
      [] ch = "#" -> "NumSign"
      [] ch = "~" -> "Tilde"
      [] ch = "$" -> "Dollar"
      [] ch = "?" -> "Question"
      [] ch = "!" -> "Bang"
      [] ch = "&" -> "Ampersand"
      [] ch = "=" -> "Equal"
      [] ch = "<" -> "Less"
      [] ch = ">" -> "Greater"
      [] ch = "-" -> "Minus"
      [] ch = "+" -> "Plus"
      [] ch = "|" -> "Pipe"
      [] ch = "^" -> "Carret"
      [] ch = "_" -> "Underscore"
      [] ch = "/" -> "Slash"
      [] ch = "@" -> "At"
      [] OTHER    -> "None"

\* Cursor::token_kind after the bump of cluster gs[i]: the kind and the index
\* of the first cluster that is not part of the token
token_kind(gs, i) ==
    LET g == gs[i] IN
    IF NChars(g) = 2 THEN
        \* word_or_newline
        IF FirstChar(g) = "\r" THEN [kind |-> "Newline", next |-> i + 1]
        ELSE [kind |-> "Word", next |-> word(gs, i + 1)]
    ELSE IF NChars(g) > 2 THEN [kind |-> "Word", next |-> word(gs, i + 1)]
    ELSE IF is_newline(g) THEN [kind |-> "Newline", next |-> i + 1]
    ELSE IF is_whitespace(g) THEN [kind |-> "Whitespace", next |-> whitespace(gs, i + 1)]
    ELSE IF g = "%" THEN comment(gs, i + 1, "Comment")
    ELSE IF g = "\\" THEN [kind |-> "CommandIdent", next |-> i + 1]
    ELSE IF g \in Digits THEN [kind |-> "Number", next |-> number(gs, i + 1)]
    ELSE IF SymbolKind(g) # "None" THEN [kind |-> SymbolKind(g), next |-> i + 1]
    ELSE IF char_is_ascii(g) THEN [kind |-> "AWord", next |-> ascii_word(gs, i + 1)]
    ELSE [kind |-> "Word", next |-> word(gs, i + 1)]

\* the byte length of clusters i .. j-1 (Cursor::token_len after the bumps)
RECURSIVE token_len(_, _, _)
token_len(gs, i, j) == IF i >= j THEN 0 ELSE NBytes(gs[i]) + token_len(gs, i + 1, j)

\* lexer::tokenize: the tokens yielded from cluster i on; Eof is not yielded
RECURSIVE tokenize_from(_, _)
tokenize_from(gs, i) ==
    IF i > Len(gs) THEN <<>>
    ELSE LET t == token_kind(gs, i) IN
         <<[kind |-> t.kind, len |-> token_len(gs, i, t.next)]>>
             \o tokenize_from(gs, t.next)

tokenize(gs) == tokenize_from(gs, 1)

(***************************************************************************)
(* crates/parser/src/preparse: the Converter.  The value c is the Converter*)
(* with its LexedStr: src (the clusters), bs (the bytes of src), lex (the  *)
(* tokens of lexer::tokenize), i (how many of them the DualPeekIterator    *)
(* has handed out), position and offset (Position), tokens, start, errors  *)
(* and definitions (LexedStr), fuel.  looks counts the lookaheads asked   *)
(* for since the last advance.  underflow records that the u32 fuel was decremented  *)
(* at 0 with overflow checks off: it wraps to 2^32 - 1, written -1 here    *)
(* (its residue modulo 2^32); the model follows the Converter no further   *)
(* than that.  panic records an unreachable!() or an overflow panic.       *)
(***************************************************************************)
CONV_FUEL == 256

\* DualPeekIterator::peek_first / peek_second, with map_or(Eof)
KindAt(c, k) == IF k <= Len(c.lex) THEN c.lex[k].kind ELSE "Eof"

first_kind(c) == KindAt(c, c.i + 1)

second_kind(c) == KindAt(c, c.i + 2)

\* the fuel.set(fuel.get() - 1) of Converter::peek_first and peek_second
burn(c) ==
    [c EXCEPT !.fuel = @ - 1,
              !.looks = @ + 1,
              !.underflow = @ \/ (c.fuel = 0)]

\* Position::advance_by
position_advance_by(c, steps) ==
    [c EXCEPT !.position = @ + steps, !.offset = @ + steps]

\* Converter::advance; the kind it returns is first_kind of the state before
advance(c) ==
    LET has == c.i < Len(c.lex)
        len == IF has THEN c.lex[c.i + 1].len ELSE 0
    IN  position_advance_by(
            [c EXCEPT !.fuel = 256, !.looks = 0,
                      !.i = IF has THEN @ + 1 ELSE @], len)

\* Position::reset_to_start: the value returned
start_of(c) == c.position - c.offset

\* reset_to_start without `self.offset = 0`
reset_to_start_keeps_offset(c) == c

\* Position::reset_to_start: the state left
reset_to_start(c) == [c EXCEPT !.offset = 0]

\* LexedStr::last_idx
last_idx(c) == Len(c.tokens) - 1

\* Converter::add_token with LexedStr::add_token
add_token(c, token) ==
    [reset_to_start(c) EXCEPT !.tokens = Append(@, token),
                              !.start = Append(@, start_of(c))]

\* add_error recording the index the next token will get
add_error_indexing_next(c, err) ==
    LET c1 == add_token(c, "Error") IN
    [c1 EXCEPT !.errors = Append(@, [kind |-> err, idx |-> Len(c1.tokens)])]

\* Converter::add_error with LexedStr::add_error
add_error(c, err) ==
    LET c1 == add_token(c, "Error") IN
    [c1 EXCEPT !.errors = Append(@, [kind |-> err, idx |-> last_idx(c1)])]

\* Converter::add_definition with LexedStr::add_definition
add_definition(c, token, def) ==
    LET c1 == add_token(c, token) IN
    [c1 EXCEPT !.definitions = Append(@, [kind |-> def, idx |-> last_idx(c1)])]

\* Converter::advance_with_token
advance_with_token(c, token) == add_token(advance(c), token)

\* Converter::advance_with_error
advance_with_error(c, err) == add_error(advance(c), err)

\* Position::current_range applied to src: &self.lexed.src[range]
current_slice(c) == SubSeq(c.bs, c.position - c.offset + 1, c.position)

\* the command names Converter::add_command matches the slice against
COMMAND_NAMES ==
    [def |-> <<"\\", "d", "e", "f">>,
     newcommand |-> <<"\\", "n", "e", "w", "c", "o", "m", "m", "a", "n", "d">>,
     newenvironment |->
        <<"\\", "n", "e", "w", "e", "n", "v", "i", "r", "o", "n", "m", "e", "n", "t">>,
     input |-> <<"\\", "i", "n", "p", "u", "t">>,
     usepackage |-> <<"\\", "u", "s", "e", "p", "a", "c", "k", "a", "g", "e">>,
     use |-> <<"\\", "u", "s", "e">>,
     fn |-> <<"\\", "f", "n">>,
     pub |-> <<"\\", "p", "u", "b">>,
     let |-> <<"\\", "l", "e", "t">>]

\* add_command matching the definition names as prefixes of the slice
add_command_by_prefix(c) ==
    LET slice == current_slice(c) IN
    IF SubSeq(slice, 1, Min(Len(slice), Len(COMMAND_NAMES.def))) = COMMAND_NAMES.def
        THEN add_definition(c, "Def", "Def")
    ELSE IF SubSeq(slice, 1, Min(Len(slice), Len(COMMAND_NAMES.newcommand))) = COMMAND_NAMES.newcommand
        THEN add_definition(c, "NewCommand", "Macro")
    ELSE add_token(c, "Command")

\* Converter::add_command
add_command(c) ==
    LET slice == current_slice(c) IN
    IF slice = COMMAND_NAMES.def THEN add_definition(c, "Def", "Def")
    ELSE IF slice = COMMAND_NAMES.newcommand THEN add_definition(c, "NewCommand", "Macro")
    ELSE IF slice = COMMAND_NAMES.newenvironment THEN add_definition(c, "NewEnv", "Environment")
    ELSE IF slice = COMMAND_NAMES.input THEN add_token(c, "Input")
    ELSE IF slice = COMMAND_NAMES.usepackage THEN add_token(c, "UsePackage")
    ELSE IF slice = COMMAND_NAMES.use THEN add_token(c, "Use")
    ELSE IF slice = COMMAND_NAMES.fn THEN add_token(c, "FunctionIdent")
    ELSE IF slice = COMMAND_NAMES.pub THEN add_token(c, "Pub")
    ELSE IF slice = COMMAND_NAMES.let THEN add_token(c, "Let")
    ELSE add_token(c, "Command")

\* Trivia for TokenKind
token_is_trivia(k) == k \in {"Whitespace", "Newline", "Comment", "AComment"}

\* is_valid_in_cmd accepting whatever follows
is_valid_in_cmd_whatever_follows(c) == TRUE

\* Converter::is_valid_in_cmd, evaluated on the state before its peek
is_valid_in_cmd(c) == second_kind(c) \in {"AWord", "Number", "Underscore", "Colon"}

\* the kinds the token_to_syntax! list of basic_token_kind converts one to one
BasicKinds ==
    {"Whitespace", "Word", "AWord", "Comment", "AComment", "OpenBrace",
     "CloseBrace", "OpenBracket", "CloseBracket", "OpenParen", "CloseParen",
     "Star", "NumSign", "Carret", "Underscore", "SingleApostrophe",
     "DoubleApostrophe", "Slash", "Tilde", "Comma", "Semicolon", "Ampersand",
     "Pipe", "Colon", "Plus", "Minus", "Question", "At", "Equal", "Less",
     "Greater", "Bang", "Eof"}

\* Converter::basic_token_kind followed by add_token; unreachable!() otherwise
add_basic(c, k) ==
    IF k \in BasicKinds THEN add_token(c, k) ELSE [c EXCEPT !.panic = TRUE]

\* the name loop shared by Converter::variable and macro_expansion_token:
\* while !is_eof() { match peek_first() { .. } advance() }, then add_token
RECURSIVE name_loop(_, _)
name_loop(c, token) ==
    LET c1 == burn(c) IN
    IF first_kind(c) = "Eof" THEN add_token(c1, token)
    ELSE LET c2 == burn(c1)
             k == first_kind(c) IN
         IF k \in {"AWord", "Number"} THEN name_loop(advance(c2), token)
         ELSE IF k = "Underscore" THEN
             IF is_valid_in_cmd(c) THEN name_loop(advance(burn(c2)), token)
             ELSE add_token(burn(c2), token)
         ELSE add_token(c2, token)

\* Converter::variable, entered with the At as first token
variable(c) ==
    LET c1 == advance(c)
        k == first_kind(c1)
        c2 == advance(c1)
        c3 == IF k = "AWord" THEN c2
              ELSE IF k = "Underscore" THEN
                  IF is_valid_in_cmd(c2) THEN burn(c2)
                  ELSE add_error(burn(c2), "InvalidVariableName")
              ELSE add_error(c2, "InvalidVariableName")
    IN  name_loop(c3, "Variable")

\* Converter::command_inner
RECURSIVE command_inner(_, _)
command_inner(c, after_path_spec) ==
    LET c1 == burn(c) IN
    IF first_kind(c) = "Eof" THEN add_command(c1)
    ELSE LET c2 == burn(c1)
             k == first_kind(c) IN
         IF k \in {"AWord", "Number"} THEN command_inner(advance(c2), FALSE)
         ELSE IF k = "Underscore" THEN
             IF is_valid_in_cmd(c) THEN command_inner(advance(burn(c2)), FALSE)
             ELSE add_command(burn(c2))
         ELSE IF k = "Colon" THEN
             IF after_path_spec THEN advance_with_error(c2, "InvalidCommandName")
             ELSE IF second_kind(c) = "Colon" THEN
                 command_inner(
                     add_token(advance(advance(add_token(burn(c2), "Namespace"))),
                               "PathSeperator"),
                     TRUE)
             ELSE add_command(burn(c2))
         ELSE IF k = "At" THEN variable(c2)
         ELSE IF k = "Star" THEN add_command(advance(c2))
         ELSE add_command(c2)

\* Converter::path_begin (its debug_assert!s are left out)
path_begin(c) ==
    command_inner(add_token(advance(advance(c)), "PathSeperator"), TRUE)

\* command's match with the Word arm reporting CommandNameMissing
command_head_word_as_missing(c) ==
    LET c1 == burn(c)
        k == first_kind(c) IN
    IF k \in {"AWord", "Underscore"} THEN [c |-> c1, valid |-> TRUE]
    ELSE IF k = "Colon" THEN [c |-> burn(c1), valid |-> FALSE]
    ELSE IF token_is_trivia(k) \/ k \in {"Eof", "Word"} THEN
        [c |-> advance_with_error(c1, "CommandNameMissing"), valid |-> FALSE]
    ELSE [c |-> c1, valid |-> FALSE]

\* Converter::command: the state after the match on peek_first, when the match
\* does not return; valid says whether valid_multichar was set
command_head(c) ==
    LET c1 == burn(c)
        k == first_kind(c) IN
    IF k \in {"AWord", "Underscore"} THEN [c |-> c1, valid |-> TRUE]
    ELSE IF k = "Colon" THEN [c |-> burn(c1), valid |-> FALSE]
    ELSE IF token_is_trivia(k) THEN
        [c |-> advance_with_error(c1, "CommandNameMissing"), valid |-> FALSE]
    ELSE IF k = "Eof" THEN
        [c |-> advance_with_error(c1, "CommandNameMissing"), valid |-> FALSE]
    ELSE IF k = "Word" THEN
        [c |-> advance_with_error(c1, "InvalidCommandName"), valid |-> FALSE]
    ELSE [c |-> c1, valid |-> FALSE]

\* Converter::command
command(c) ==
    LET k == first_kind(c) IN
    IF k = "At" THEN variable(burn(c))
    ELSE IF k = "Colon" /\ second_kind(c) = "Colon" THEN path_begin(burn(burn(c)))
    ELSE LET h == command_head(c)
             c3 == advance(h.c) IN
         IF ~h.valid THEN add_command(c3)
         ELSE IF first_kind(c3) = "Eof" THEN add_command(burn(c3))
         ELSE command_inner(burn(c3), FALSE)

\* the loop of Converter::newline
RECURSIVE newline_loop(_)
newline_loop(c) ==
    LET c1 == burn(c) IN
    IF first_kind(c) = "Eof" THEN add_token(c1, "Break")
    ELSE LET c2 == burn(c1) IN
         IF first_kind(c) = "Newline" THEN newline_loop(advance(c2))
         ELSE LET c3 == burn(c2) IN
              IF first_kind(c) # "Whitespace" THEN add_token(c3, "Break")
              ELSE IF second_kind(c) = "Newline" THEN newline_loop(advance(burn(c3)))
              ELSE add_token(burn(c3), "Break")

\* newline without the loop: every Newline lexical token a Newline token
newline_never_coalescing(c) == add_token(burn(c), "Newline")

\* Converter::newline
newline(c) ==
    IF first_kind(c) # "Newline" THEN add_token(burn(c), "Newline")
    ELSE newline_loop(burn(c))

\* Converter::number (the operator number is Cursor::number)
conv_number(c) ==
    IF first_kind(c) = "Dot" THEN
        IF second_kind(c) = "Number" THEN
            add_token(advance(advance(burn(burn(c)))), "Float")
        ELSE add_token(burn(burn(c)), "Number")
    ELSE add_token(burn(c), "Number")

\* Converter::dot
dot(c) ==
    IF first_kind(c) = "Number" THEN add_token(advance(burn(c)), "Float")
    ELSE add_token(burn(c), "Dot")

\* Converter::string
RECURSIVE string(_)
string(c) ==
    LET c1 == burn(c) IN
    IF first_kind(c) = "Eof" THEN add_token(c1, "String")
    ELSE IF first_kind(c) = "DoubleApostrophe" THEN add_token(advance(burn(c1)), "String")
    ELSE string(advance(burn(c1)))

\* macro_expansion_token without the `eat(Number)` branch
macro_expansion_token_always_named(c) ==
    name_loop(burn(c), "ComplexMacroExpansionToken")

\* Converter::macro_expansion_token
macro_expansion_token(c) ==
    IF first_kind(c) = "Number" THEN
        add_token(advance(burn(c)), "SimpleMacroExpansionToken")
    ELSE name_loop(burn(c), "ComplexMacroExpansionToken")

\* Converter::raw
raw(c) ==
    LET k == first_kind(c) IN
    IF k = "Greater" THEN
        IF second_kind(c) = "Greater" THEN
            add_token(advance(advance(burn(burn(c)))), "RawDelimiter")
        ELSE add_token(burn(burn(burn(burn(c)))), "NumSign")
    ELSE IF k = "AWord" THEN macro_expansion_token(burn(burn(c)))
    ELSE IF k = "Number" THEN macro_expansion_token(burn(burn(burn(c))))
    ELSE add_token(burn(burn(burn(c))), "NumSign")

\* the arms `K if self.at(N) => self.advance_with_token(T)` of Converter::token
Fused ==
    [Less    |-> [next |-> "Equal",   token |-> "LessEq"],
     Greater |-> [next |-> "Equal",   token |-> "GreaterEq"],
     Equal   |-> [next |-> "Equal",   token |-> "Comparison"],
     Minus   |-> [next |-> "Greater", token |-> "RightArrow"]]

\* Converter::token
token(c) ==
    LET k == first_kind(c)
        c1 == advance(c) IN
    IF k = "CommandIdent" THEN command(c1)
    ELSE IF k = "Newline" THEN newline(c1)
    ELSE IF k \in DOMAIN Fused THEN
        IF first_kind(c1) = Fused[k].next
            THEN advance_with_token(burn(c1), Fused[k].token)
            ELSE add_basic(burn(c1), k)
    ELSE IF k = "Dollar" THEN add_token(c1, "MathDelimiter")
    ELSE IF k = "Number" THEN conv_number(c1)
    ELSE IF k = "Dot" THEN dot(c1)
    ELSE IF k = "DoubleApostrophe" THEN string(c1)
    ELSE IF k = "NumSign" THEN raw(c1)
    ELSE add_basic(c1, k)

\* Converter::new over LexedStr::new(input): nothing classified yet
NewConverter(gs) ==
    [src |-> gs, bs |-> SrcBytes(gs), lex |-> tokenize(gs), i |-> 0,
     position |-> 0, offset |-> 0, tokens |-> <<>>, start |-> <<>>,
     errors |-> <<>>, definitions |-> <<>>, fuel |-> CONV_FUEL,
     looks |-> 0, underflow |-> FALSE, panic |-> FALSE, done |-> FALSE]

\* one turn of the loop of Converter::convert: is_eof() was false
convert_token(c) == token(burn(c))

\* the end of convert without the closing add_token(Eof)
convert_eof_without_sentinel(c) == [burn(c) EXCEPT !.done = TRUE]

\* the end of Converter::convert: is_eof() was true
convert_eof(c) == [add_token(burn(c), "Eof") EXCEPT !.done = TRUE]

\* Converter::transform: the whole of convert
RECURSIVE transform(_)
transform(c) ==
    IF c.panic \/ c.underflow THEN c
    ELSE IF first_kind(c) = "Eof" THEN convert_eof(c)
    ELSE transform(convert_token(c))

(***************************************************************************)
(* The classifier as a state machine: LexedStr::new(input) for every input *)
(* made of at most MaxPieces pieces, one step per turn of convert's loop.  *)
(***************************************************************************)
Pieces ==
    { <<"\\">>, <<"d", "e", "f">>,
      <<"n", "e", "w", "c", "o", "m", "m", "a", "n", "d">>,
      <<"n", "e", "w", "e", "n", "v", "i", "r", "o", "n", "m", "e", "n", "t">>,
      <<"a">>, <<"_">>, <<":">>, <<"@">>, <<"*">>, <<"1">>, <<" ">>, <<"\n">>,
      <<"\r\n">>, <<"U00E4">>, <<"#">>, <<"=">>, <<".">>, <<"%">>, <<">">>,
      <<"\\", "a">>, <<":", ":">> }

RECURSIVE Texts(_)
Texts(n) ==
    IF n = 0 THEN {<<>>}
    ELSE LET shorter == Texts(n - 1) IN
         shorter \cup {t \o p : t \in shorter, p \in Pieces}

Idle == [idle |-> TRUE]

InitClassify ==
    /\ conv \in {NewConverter(gs) : gs \in Texts(MaxPieces)}
    /\ tkz = Idle
    /\ prs = Idle
    /\ rsv = Idle

\* Converter::convert, one turn of `while !self.is_eof() { self.token() }`
ConvertToken ==
    /\ ~conv.done
    /\ ~conv.panic /\ ~conv.underflow
    /\ first_kind(conv) # "Eof"
    /\ conv' = convert_token(conv)
    /\ UNCHANGED <<tkz, prs, rsv>>

\* Converter::convert, the closing `self.add_token(Eof)`
ConvertEof ==
    /\ ~conv.done
    /\ ~conv.panic /\ ~conv.underflow
    /\ first_kind(conv) = "Eof"
    /\ conv' = convert_eof(conv)
    /\ UNCHANGED <<tkz, prs, rsv>>

NextClassify == ConvertToken \/ ConvertEof

SpecClassify == InitClassify /\ [][NextClassify]_vars

(***************************************************************************)
(* Properties of the classifier (SpecClassify).                            *)
(***************************************************************************)
\* the end of the slice of token k: the next token's offset (IndexedSliceView::
\* range_from_index); for the token emitted last, the converter's position
slice_end(c, k) ==
    IF k < Len(c.start) THEN c.start[k + 1] ELSE c.position - c.offset

\* IndexedSliceView::slice_at_index for the k-th token (k counts from 1)
slice_at(c, k) == SubSeq(c.bs, c.start[k] + 1, slice_end(c, k))

\* the slices of tokens k .. n, concatenated
RECURSIVE slices_from(_, _, _)
slices_from(c, k, n) ==
    IF k > n THEN <<>> ELSE slice_at(c, k) \o slices_from(c, k + 1, n)

\* C1: the offset table starts at 0 and is non-decreasing, the final Eof's
\* offset is the byte length of the text, and the slices of the tokens before
\* the Eof, concatenated, are the text.
C1_TotalCoverage ==
    /\ \A k \in 1 .. Len(conv.start) - 1 : conv.start[k] <= conv.start[k + 1]
    /\ conv.start # <<>> => conv.start[1] = 0
    /\ conv.done =>
        /\ conv.start[Len(conv.start)] = Len(conv.bs)
        /\ slices_from(conv, 1, Len(conv.tokens) - 1) = conv.bs

\* a finished classification of a text with a multi-byte cluster in which
\* one syntax token groups several lexical tokens
C1_Witness ==
    /\ conv.done
    /\ Len(conv.bs) > Len(conv.src)
    /\ Len(conv.tokens) >= 3
    /\ Len(conv.tokens) - 1 < Len(conv.lex)

\* C2: after classification the token sequence ends with Eof, Eof is at no
\* other position, and the offset table is as long as the token sequence.
C2_Sentinel ==
    /\ Len(conv.start) = Len(conv.tokens)
    /\ \A k \in 1 .. Len(conv.tokens) :
           conv.tokens[k] = "Eof" <=> (conv.done /\ k = Len(conv.tokens))
    /\ conv.done => conv.tokens # <<>>

\* a finished classification whose last handler ran into the end of input
C2_Witness ==
    /\ conv.done
    /\ Len(conv.tokens) >= 3
    /\ conv.lex[Len(conv.lex)].kind = "CommandIdent"

\* a backslash followed by trivia, by the end of input or by a non-ASCII word
MalformedHead(c) ==
    /\ ~c.done
    /\ first_kind(c) = "CommandIdent"
    /\ \/ token_is_trivia(second_kind(c))
       \/ second_kind(c) \in {"Eof", "Word"}

\* C5: the step that meets a malformed command head emits the Error token and
\* nothing else, and leaves as next lexical token the first one the Error
\* token does not cover, so that the next turn classifies it at top level.
C5_ResumeAfterError ==
    [][MalformedHead(conv) =>
          /\ conv'.tokens = Append(conv.tokens, "Error")
          /\ conv'.i = Min(conv.i + 2, Len(conv.lex))]_vars

\* a backslash directly followed by a non-ASCII word
NonAsciiHead(c) ==
    /\ ~c.done
    /\ first_kind(c) = "CommandIdent"
    /\ second_kind(c) = "Word"

\* C6: the step that meets a backslash followed by a non-ASCII word emits
\* exactly one Error token and records exactly one error, InvalidCommandName,
\* at that token's index, without panicking; the finished sequence ends with
\* Eof.
C6_InvalidName ==
    /\ [][NonAsciiHead(conv) =>
            /\ CountOf(conv'.tokens, "Error") = CountOf(conv.tokens, "Error") + 1
            /\ conv'.tokens[Len(conv.tokens) + 1] = "Error"
            /\ conv'.errors =
                   Append(conv.errors,
                          [kind |-> "InvalidCommandName", idx |-> Len(conv.tokens)])
            /\ ~conv'.panic /\ ~conv'.underflow]_vars
    /\ [](conv.done => conv.tokens[Len(conv.tokens)] = "Eof")

\* the input is a backslash and a-umlaut, classified to the end
C6_Witness ==
    /\ conv.done
    /\ conv.src = <<"\\", "U00E4">>
    /\ CountOf(conv.tokens, "Error") = 1
    /\ Len(conv.errors) = 1

\* the kinds Converter::add_command emits
CommandKinds ==
    {"Command", "Def", "NewCommand", "NewEnv", "Input", "UsePackage", "Use",
     "FunctionIdent", "Pub", "Let"}

\* the head token of a DefinitionKind
HeadToken(def) ==
    CASE def = "Def" -> "Def"
      [] def = "Macro" -> "NewCommand"
      [] def = "Environment" -> "NewEnv"

len_utf8(c) ==
    CASE c = "U00E4" -> 2
      [] c = "U2029" -> 3
      [] OTHER -> 1

\* a text of chars as a &str
RECURSIVE Utf8(_)
Utf8(cs) ==
    IF cs = <<>> THEN <<>>
    ELSE <<Head(cs)>> \o [k \in 1 .. len_utf8(Head(cs)) - 1 |-> "cont"]
             \o Utf8(Tail(cs))

\* Option::None for a char
NoChar == "None"

\* s.chars().next()
chars_next(s) == IF s = <<>> THEN NoChar ELSE s[1]

\* str::starts_with(char)
starts_with(rest, ch) == rest # <<>> /\ rest[1] = ch

\* char::is_alphabetic
char_is_alphabetic(c) == c \in AsciiLetters \cup {"U00E4"}

\* unicode_ident::is_xid_start
is_xid_start(c) == char_is_alphabetic(c)

\* unicode_ident::is_xid_continue
is_xid_continue(c) == char_is_alphabetic(c) \/ c \in Digits \/ c = "_"

\* lexer::definition::is_whitespace
dfa_is_whitespace(c) == c \in {" ", "\t"}

\* lexer::definition::is_newline
dfa_is_newline(c, rest) ==
    \/ c = "\r" /\ starts_with(rest, "\n")
    \/ c \in {"\n", "\r", "U2029"}

\* a carriage return that never counts as one with the line feed after it
never_multichar_newline(c, rest) == FALSE

\* lexer::definition::is_multichar_newline
is_multichar_newline(c, rest) == c = "\r" /\ starts_with(rest, "\n")

\* lexer::definition::is_break
is_break(c) == c = "U2029"

\* lexer::definition::is_continue_numeric
is_continue_numeric(rest) == rest # <<>> /\ rest[1] \in Digits

\* lexer::definition::is_continue_minus_numeric
is_continue_minus_numeric(rest) ==
    Len(rest) >= 2 /\ rest[1] = "-" /\ rest[2] \in Digits

\* lexer::tables::UNIT_TABLE: the two-letter units
UNIT_TABLE == {<<"m", "m">>, <<"c", "m">>, <<"i", "n">>}

\* the range pattern 'b'..='s' of the Unit state
in_unit_bound(c) == c \in {"c", "d", "e", "f", "i", "m", "n", "o", "r"}

\* lexer::tables::COMPOSITE_SYMBOL_TABLE: the token of a two-char operator
COMPOSITE_SYMBOL_TABLE ==
    [p \in {<<"$", "$">>, <<":", ":">>, <<"-", ">">>, <<"=", "=">>,
            <<"-", "=">>} |->
        CASE p = <<"$", "$">> -> "MathDisplay"
          [] p = <<":", ":">> -> "PathSeparator"
          [] p = <<"-", ">">> -> "RightArrow"
          [] p = <<"=", "=">> -> "DoubleEqual"
          [] p = <<"-", "=">> -> "MinusEqual"]

\* lexer::tables::SYMBOL_TABLE: the token of a one-char symbol
SYMBOL_TABLE ==
    [c \in {"{", "}", "$", ":", "-", "=", ".", "_", "@", ">"} |->
        CASE c = "{" -> "OpenBrace"
          [] c = "}" -> "CloseBrace"
          [] c = "$" -> "Dollar"
          [] c = ":" -> "Colon"
          [] c = "-" -> "Minus"
          [] c = "=" -> "Equal"
          [] c = "." -> "Period"
          [] c = "_" -> "Underscore"
          [] c = "@" -> "At"
          [] c = ">" -> "Greater"]

(***************************************************************************)
(* lexer/infra.rs: LexerAction, LexerAccumulate and LexerNext as records.  *)
(***************************************************************************)
\* infra::consume
consume(c) == [kind |-> "Consume", n |-> len_utf8(c)]

\* infra::consume_str, of an ASCII literal of n chars
consume_str(n) == [kind |-> "Consume", n |-> n]

\* infra::reconsume
reconsume == [kind |-> "Reconsume", n |-> 0]

\* infra::reset
reset(len) == [kind |-> "Reset", n |-> len]

\* LexerAccumulate::Begin
Begin == [kind |-> "Begin", action |-> reconsume, token |-> "None"]

\* LexerAction::and_emit
and_emit(action, tok) == [kind |-> "Emit", action |-> action, token |-> tok]

\* LexerAction::and_discard
and_discard(action) == [kind |-> "Skip", action |-> action, token |-> "None"]

\* LexerState as a record; the fields a variant lacks are at their defaults
State(name) == [name |-> name, unit |-> FALSE, from |-> "None", len |-> 0]

Top(unit) == [State("Top") EXCEPT !.unit = unit]

Whitespace(unit, from, len) ==
    [name |-> "Whitespace", unit |-> unit, from |-> from, len |-> len]

Newline(unit) == [State("Newline") EXCEPT !.unit = unit]

\* LexerState::top and definition::top
top == Top(FALSE)

\* LexerNext::EOF
EOF == [kind |-> "EOF", acc |-> Begin, state |-> top]

\* LexerAction::and_remain
and_remain(action) ==
    [kind |-> "Remain",
     acc |-> [kind |-> "Continue", action |-> action, token |-> "None"],
     state |-> top]

\* LexerAction::and_transition
and_transition(action, state) ==
    [kind |-> "Transition",
     acc |-> [kind |-> "Continue", action |-> action, token |-> "None"],
     state |-> state]

\* LexerAccumulate::and_transition
acc_and_transition(acc, state) ==
    [kind |-> "Transition", acc |-> acc, state |-> state]

\* LexerNext::begin
begin(state) == acc_and_transition(Begin, state)

(***************************************************************************)
(* lexer/definition.rs: LexerState::next.                                  *)
(***************************************************************************)
\* rest.chars().take(2): the second char after `first`, NoChar if there is none
second_of(rest) ==
    IF rest = <<>> THEN NoChar
    ELSE chars_next(SubSeq(rest, len_utf8(rest[1]) + 1, Len(rest)))

\* LexerState::next, one local definition per state (per arm of the match on
\* self).  c is the char at the position (NoChar at the end) and rest the
\* text after it.
LexerState_next(s, c, rest) ==
    LET
        next_Top ==
            IF c = NoChar THEN EOF
            ELSE IF dfa_is_whitespace(c) THEN begin(Whitespace(s.unit, "None", 0))
            ELSE IF is_break(c) THEN begin(State("Break"))
            ELSE IF is_multichar_newline(c, rest)
                THEN and_transition(consume_str(2), Newline(s.unit))
            ELSE IF dfa_is_newline(c, rest) THEN and_transition(consume(c), Newline(s.unit))
            ELSE IF c \in Digits THEN begin(State("Number"))
            ELSE IF c = "." /\ is_continue_numeric(rest) THEN begin(State("Float"))
            ELSE IF s.unit /\ char_is_ascii(c) THEN and_transition(reconsume, State("Unit"))
            ELSE IF c = "\\"
                THEN acc_and_transition(and_emit(consume("\\"), "CommandIdent"),
                                        State("CommandNameBegin"))
            ELSE IF c = "#" THEN begin(State("MacroParameter"))
            ELSE IF c = "%" THEN begin(State("Comment"))
            ELSE IF ~char_is_alphabetic(c) THEN begin(State("Symbol"))
            ELSE begin(State("Word"))

        next_Whitespace ==
            IF c = NoChar
                THEN acc_and_transition(and_emit(reconsume, "Whitespace"), top)
            ELSE IF dfa_is_newline(c, rest) /\ s.from # "None"
                THEN and_transition(reconsume, State("Break"))
            ELSE IF dfa_is_whitespace(c)
                THEN and_transition(consume(c), Whitespace(s.unit, s.from, s.len + len_utf8(c)))
            ELSE IF s.from = "Break"
                THEN acc_and_transition(and_emit(reset(s.len), "Break"), top)
            ELSE IF s.from = "Newline"
                THEN acc_and_transition(and_emit(reset(s.len), "Newline"), top)
            ELSE acc_and_transition(and_emit(reconsume, "Whitespace"), Top(s.unit))

        next_Break ==
            IF c = NoChar THEN acc_and_transition(and_emit(reconsume, "Break"), top)
            ELSE IF dfa_is_whitespace(c)
                THEN and_transition(reconsume, Whitespace(FALSE, "Break", 0))
            ELSE IF is_multichar_newline(c, rest) THEN and_remain(consume_str(2))
            ELSE IF dfa_is_newline(c, rest) THEN and_remain(consume(c))
            ELSE acc_and_transition(and_emit(reconsume, "Break"), top)

        next_Newline ==
            IF c = NoChar THEN acc_and_transition(and_emit(reconsume, "Newline"), top)
            ELSE IF dfa_is_whitespace(c)
                THEN and_transition(reconsume, Whitespace(s.unit, "Newline", 0))
            ELSE IF is_multichar_newline(c, rest)
                THEN and_transition(consume_str(2), State("Break"))
            ELSE IF dfa_is_newline(c, rest) THEN and_transition(consume(c), State("Break"))
            ELSE acc_and_transition(and_emit(reconsume, "Newline"), Top(s.unit))

        next_Number ==
            IF c = NoChar THEN acc_and_transition(and_emit(reconsume, "Integer"), top)
            ELSE IF c \in Digits THEN and_remain(consume(c))
            ELSE IF c = "_" /\ is_continue_numeric(rest) THEN and_remain(consume("_"))
            ELSE IF c = "." /\ is_continue_numeric(rest)
                THEN and_transition(consume("."), State("Float"))
            ELSE IF c = "e" /\ is_continue_minus_numeric(rest)
                THEN and_transition(consume_str(2), State("FloatWithExponent"))
            ELSE IF c = "e" /\ is_continue_numeric(rest)
                THEN and_transition(consume("e"), State("FloatWithExponent"))
            ELSE acc_and_transition(and_emit(reconsume, "Integer"), top)

        next_Float ==
            IF c = NoChar THEN acc_and_transition(and_emit(reconsume, "Float"), top)
            ELSE IF c \in Digits THEN and_remain(consume(c))
            ELSE IF c = "_" /\ is_continue_numeric(rest) THEN and_remain(consume("_"))
            ELSE IF c = "e" /\ is_continue_minus_numeric(rest)
                THEN and_transition(consume_str(2), State("FloatWithExponent"))
            ELSE IF c = "e" /\ is_continue_numeric(rest)
                THEN and_transition(consume("e"), State("FloatWithExponent"))
            ELSE acc_and_transition(and_emit(reconsume, "Float"), top)

        next_FloatWithExponent ==
            IF c = NoChar THEN acc_and_transition(and_emit(reconsume, "Float"), top)
            ELSE IF c \in Digits THEN and_remain(consume(c))
            ELSE IF c = "_" /\ is_continue_numeric(rest) THEN and_remain(consume("_"))
            ELSE acc_and_transition(and_emit(reconsume, "Float"), top)

        next_Unit ==
            IF c = NoChar THEN acc_and_transition(and_discard(reconsume), top)
            ELSE IF in_unit_bound(c) THEN
                LET unit == rest # <<>> /\ <<c, rest[1]>> \in UNIT_TABLE
                    boundry == second_of(rest) = NoChar
                                   \/ ~char_is_alphabetic(second_of(rest))
                IN  IF unit /\ boundry THEN and_transition(consume_str(2), top)
                    ELSE and_transition(reconsume, State("Word"))
            ELSE and_transition(reconsume, State("Word"))

        next_CommandNameBegin ==
            IF c = NoChar THEN acc_and_transition(and_discard(reconsume), top)
            ELSE IF dfa_is_whitespace(c) THEN acc_and_transition(and_discard(reconsume), top)
            ELSE IF dfa_is_newline(c, rest) THEN acc_and_transition(and_discard(reconsume), top)
            ELSE IF c = "u" THEN and_transition(consume("u"), State("UnicodeEscape"))
            ELSE IF c = "@"
                THEN acc_and_transition(and_emit(consume("@"), "VariableIdent"),
                                        State("VariableName"))
            ELSE IF c = ":" /\ starts_with(rest, ":")
                THEN acc_and_transition(and_emit(consume_str(2), "PathSeparator"),
                                        State("CommandNameContinueBegin"))
            ELSE IF is_xid_start(c)
                THEN and_transition(consume(c), State("CommandNameContinue"))
            ELSE IF char_is_ascii(c)
                THEN acc_and_transition(and_emit(consume(c), "Command"), top)
            ELSE and_transition(reconsume, State("Word"))

        next_CommandNameContinueBegin ==
            IF c = NoChar THEN acc_and_transition(and_discard(reconsume), top)
            ELSE IF c = "_" THEN and_transition(reconsume, top)
            ELSE IF is_xid_start(c)
                THEN and_transition(consume(c), State("CommandNameContinue"))
            ELSE and_transition(reconsume, State("Word"))

        next_CommandNameContinue ==
            IF c = NoChar THEN acc_and_transition(and_emit(reconsume, "Command"), top)
            ELSE IF c = ":" /\ starts_with(rest, ":")
                THEN acc_and_transition(and_emit(consume_str(2), "PathSeparator"),
                                        State("CommandNameContinueBegin"))
            ELSE IF is_xid_continue(c) THEN and_remain(consume(c))
            ELSE acc_and_transition(and_emit(reconsume, "Command"), top)

        next_VariableName ==
            IF c = NoChar THEN acc_and_transition(and_discard(reconsume), top)
            ELSE IF c = ":" /\ starts_with(rest, ":")
                THEN acc_and_transition(and_emit(consume_str(2), "PathSeparator"),
                                        State("VariableNameStart"))
            ELSE IF is_xid_start(c)
                THEN and_transition(consume(c), State("VariableNameContinue"))
            ELSE and_transition(reconsume, State("Word"))

        next_VariableNameStart ==
            IF c = NoChar THEN acc_and_transition(and_discard(reconsume), top)
            ELSE IF is_xid_start(c)
                THEN and_transition(consume(c), State("VariableNameContinue"))
            ELSE and_transition(reconsume, State("Word"))

        next_VariableNameContinue ==
            IF c = NoChar THEN acc_and_transition(and_emit(reconsume, "Variable"), top)
            ELSE IF c = ":" /\ starts_with(rest, ":")
                THEN acc_and_transition(and_emit(consume_str(2), "PathSeparator"),
                                        State("VariableNameStart"))
            ELSE IF is_xid_continue(c) THEN and_remain(consume(c))
            ELSE acc_and_transition(and_emit(reconsume, "Variable"), top)

        next_UnicodeEscape ==
            IF c = NoChar
                THEN acc_and_transition(and_emit(reconsume, "UnicodeEscape"), top)
            ELSE IF c = "{" THEN and_transition(consume("{"), State("UnicodeEscapeValue"))
            ELSE IF dfa_is_whitespace(c) \/ dfa_is_newline(c, rest)
                THEN acc_and_transition(and_emit(reconsume, "UnicodeEscape"), top)
            ELSE and_transition(reconsume, State("CommandNameContinue"))

        next_UnicodeEscapeValue ==
            IF c = NoChar
                THEN acc_and_transition(and_emit(reconsume, "UnicodeEscape"), top)
            ELSE IF c = "}"
                THEN acc_and_transition(and_emit(consume("}"), "UnicodeEscape"), top)
            ELSE and_remain(consume(c))

        next_MacroParameter ==
            IF c = NoChar THEN acc_and_transition(and_emit(reconsume, "NumSign"), top)
            ELSE IF c \in Digits
                THEN and_transition(consume(c), State("MacroParameterContinue"))
            ELSE IF is_xid_start(c)
                THEN and_transition(consume(c), State("MacroParameterContinue"))
            ELSE acc_and_transition(and_emit(reconsume, "NumSign"), top)

        next_MacroParameterContinue ==
            IF c = NoChar
                THEN acc_and_transition(and_emit(reconsume, "MacroParameter"), top)
            ELSE IF c = "_"
                THEN acc_and_transition(and_emit(reconsume, "MacroParameter"), top)
            ELSE IF is_xid_continue(c) THEN and_remain(consume(c))
            ELSE acc_and_transition(and_emit(reconsume, "MacroParameter"), top)

        next_Comment ==
            IF c = NoChar THEN acc_and_transition(and_emit(reconsume, "Comment"), top)
            ELSE IF dfa_is_newline(c, rest)
                THEN acc_and_transition(and_emit(reconsume, "Comment"), top)
            ELSE and_remain(consume(c))

        next_Symbol ==
            IF c = NoChar THEN acc_and_transition(and_discard(reconsume), top)
            ELSE IF rest # <<>> /\ <<c, rest[1]>> \in DOMAIN COMPOSITE_SYMBOL_TABLE
                THEN acc_and_transition(
                         and_emit(consume_str(2), COMPOSITE_SYMBOL_TABLE[<<c, rest[1]>>]),
                         top)
            ELSE LET tok == IF c \in DOMAIN SYMBOL_TABLE THEN SYMBOL_TABLE[c]
                            ELSE "Symbol"
                 IN  acc_and_transition(and_emit(consume(c), tok), top)

        next_Word ==
            IF c = NoChar THEN and_transition(reconsume, top)
            ELSE IF ~char_is_ascii_alphabetic(c) THEN and_transition(reconsume, State("AWord"))
            ELSE and_transition(reconsume, State("UWord"))

        next_AWord ==
            IF c = NoChar THEN acc_and_transition(and_emit(reconsume, "AWord"), top)
            ELSE IF ~char_is_ascii_alphabetic(c)
                THEN acc_and_transition(and_emit(reconsume, "AWord"), top)
            ELSE and_remain(consume(c))

        next_UWord ==
            IF c = NoChar THEN acc_and_transition(and_emit(reconsume, "UWord"), top)
            ELSE IF ~char_is_alphabetic(c)
                THEN acc_and_transition(and_emit(reconsume, "UWord"), top)
            ELSE and_remain(consume(c))
    IN
        CASE s.name = "Top" -> next_Top
          [] s.name = "Whitespace" -> next_Whitespace
          [] s.name = "Break" -> next_Break
          [] s.name = "Newline" -> next_Newline
          [] s.name = "Number" -> next_Number
          [] s.name = "Float" -> next_Float
          [] s.name = "FloatWithExponent" -> next_FloatWithExponent
          [] s.name = "Unit" -> next_Unit
          [] s.name = "CommandNameBegin" -> next_CommandNameBegin
          [] s.name = "CommandNameContinueBegin" -> next_CommandNameContinueBegin
          [] s.name = "CommandNameContinue" -> next_CommandNameContinue
          [] s.name = "VariableName" -> next_VariableName
          [] s.name = "VariableNameStart" -> next_VariableNameStart
          [] s.name = "VariableNameContinue" -> next_VariableNameContinue
          [] s.name = "UnicodeEscape" -> next_UnicodeEscape
          [] s.name = "UnicodeEscapeValue" -> next_UnicodeEscapeValue
          [] s.name = "MacroParameter" -> next_MacroParameter
          [] s.name = "MacroParameterContinue" -> next_MacroParameterContinue
          [] s.name = "Comment" -> next_Comment
          [] s.name = "Symbol" -> next_Symbol
          [] s.name = "Word" -> next_Word
          [] s.name = "AWord" -> next_AWord
          [] s.name = "UWord" -> next_UWord

(***************************************************************************)
(* lexer/infra.rs: Tokenizer.  A tokenizer is a record: input, state,      *)
(* start, token_len, exhausted (the struct), iter (the turns of the loop   *)
(* of the running call of next), last (what the last call returned), eofs  *)
(* (how many Eof tokens were returned), panic (a failed assert!, or the    *)
(* usize token_len reset below 0: a panic in a debug build, a wrap in a    *)
(* release build; the model follows the Tokenizer no further than that).   *)
(***************************************************************************)
MAX_ITERATIONS == 1000

\* a LoopCompletion or returned item: Continue, None, or a token with its span
Item(value, start, len) == [value |-> value, start |-> start, len |-> len]

Continue == Item("Continue", 0, 0)

NoItem == Item("None", 0, 0)

NotCalled == Item("NotCalled", 0, 0)

\* Tokenizer::new
NewTokenizer(input) ==
    [input |-> input, state |-> top, start |-> 0, token_len |-> 0,
     exhausted |-> FALSE, iter |-> 0, last |-> NotCalled, eofs |-> 0,
     panic |-> FALSE]

\* Tokenizer::action
action(t, a) ==
    CASE a.kind = "Consume" -> [t EXCEPT !.token_len = @ + a.n]
      [] a.kind = "Reconsume" -> t
      [] a.kind = "Reset" ->
            IF a.n > t.token_len THEN [t EXCEPT !.panic = TRUE]
            ELSE [t EXCEPT !.token_len = @ - a.n]

\* Tokenizer::accumulate: the tokenizer left and the LoopCompletion
accumulate(t, accum) ==
    CASE accum.kind = "Begin" ->
            [t |-> [t EXCEPT !.panic = t.token_len # 0], ret |-> Continue]
      [] accum.kind = "Continue" ->
            [t |-> action(t, accum.action), ret |-> Continue]
      [] accum.kind = "Skip" ->
            LET t1 == action(t, accum.action) IN
            [t |-> [t1 EXCEPT !.start = @ + t1.token_len, !.token_len = 0],
             ret |-> Continue]
      [] accum.kind = "Emit" ->
            LET t1 == action(t, accum.action) IN
            [t |-> [t1 EXCEPT !.start = @ + t1.token_len, !.token_len = 0],
             ret |-> Item(accum.token, t1.start, t1.token_len)]

\* Tokenizer::transition
transition(t, state) == [t EXCEPT !.state = state]

\* Tokenizer::step
step(t, next) ==
    CASE next.kind = "EOF" -> [t |-> t, ret |-> Item("Eof", t.start, 0)]
      [] next.kind = "Remain" -> accumulate(t, next.acc)
      [] next.kind = "Transition" ->
            LET r == accumulate(t, next.acc) IN
            [t |-> transition(r.t, next.state), ret |-> r.ret]

\* Tokenizer::emit: the tokenizer left, with what next returns in last
emit(t, tok) ==
    IF t.exhausted THEN [t EXCEPT !.last = NoItem]
    ELSE [t EXCEPT !.exhausted = (tok.value = "Eof"),
                   !.eofs = IF tok.value = "Eof" THEN @ + 1 ELSE @,
                   !.last = tok]

\* one turn of the loop of Tokenizer::next, up to the match on step's result:
\* the char at start + token_len, the text after it, LexerState::next, step
turn(t) ==
    LET pos == t.start + t.token_len
        c == chars_next(SubSeq(t.input, pos + 1, Len(t.input)))
        rest == SubSeq(t.input, pos + (IF c = NoChar THEN 0 ELSE len_utf8(c)) + 1,
                       Len(t.input))
    IN  IF c = "cont" THEN [t |-> [t EXCEPT !.panic = TRUE], ret |-> Continue]
        ELSE step(t, LexerState_next(t.state, c, rest))

(***************************************************************************)
(* The DFA tokenizer as a state machine: Tokenizer::new(input) for every   *)
(* input of at most MaxDfaPieces pieces and for one word longer than the   *)
(* budget of one call, then calls of next, one step per turn of its loop.  *)
(***************************************************************************)
DfaPieces ==
    { <<"\\">>, <<"a">>, <<"m", "m">>, <<"1">>, <<".">>, <<" ">>, <<"\n">>,
      <<"\r", "\n">>, <<"U00E4">>, <<"#">>, <<":", ":">>, <<"%">>, <<"$">>,
      <<"@">>, <<"\\", "u", "{">> }

RECURSIVE DfaTexts(_)
DfaTexts(n) ==
    IF n = 0 THEN {<<>>}
    ELSE LET shorter == DfaTexts(n - 1) IN
         shorter \cup {t \o p : t \in shorter, p \in DfaPieces}

\* a word of ASCII letters (one byte each), one letter longer than
\* MAX_ITERATIONS
LongWord == [k \in 1 .. MAX_ITERATIONS + 1 |-> "a"]

InitTok ==
    /\ tkz \in {NewTokenizer(input) :
                   input \in {Utf8(cs) : cs \in DfaTexts(MaxDfaPieces)}
                                \cup {LongWord}}
    /\ conv = Idle
    /\ prs = Idle
    /\ rsv = Idle

\* Tokenizer::next, a turn of the loop that ends in LoopCompletion::Continue
TokContinue ==
    /\ ~tkz.panic
    /\ tkz.iter < MAX_ITERATIONS
    /\ turn(tkz).ret = Continue
    /\ tkz' = [turn(tkz).t EXCEPT !.iter = @ + 1]
    /\ UNCHANGED <<conv, prs, rsv>>

\* Tokenizer::next, a turn that ends in Return(item): next returns a token
TokEmit ==
    /\ ~tkz.panic
    /\ tkz.iter < MAX_ITERATIONS
    /\ turn(tkz).ret # Continue
    /\ ~tkz.exhausted
    /\ tkz' = [emit(turn(tkz).t, turn(tkz).ret) EXCEPT !.iter = 0]
    /\ UNCHANGED <<conv, prs, rsv>>

\* Tokenizer::next, a turn that ends in Return(item) after the Eof token was
\* returned: emit returns None
TokExhausted ==
    /\ ~tkz.panic
    /\ tkz.iter < MAX_ITERATIONS
    /\ turn(tkz).ret # Continue
    /\ tkz.exhausted
    /\ tkz' = [emit(turn(tkz).t, turn(tkz).ret) EXCEPT !.iter = 0]
    /\ UNCHANGED <<conv, prs, rsv>>

\* Tokenizer::next, the loop has run MAX_ITERATIONS turns: next returns None
TokOutOfTurns ==
    /\ ~tkz.panic
    /\ tkz.iter = MAX_ITERATIONS
    /\ tkz' = [tkz EXCEPT !.iter = 0, !.last = NoItem]
    /\ UNCHANGED <<conv, prs, rsv>>

NextTok == TokContinue \/ TokEmit \/ TokExhausted \/ TokOutOfTurns

SpecTok == InitTok /\ [][NextTok]_vars

\* the caller keeps calling next, and a call of next runs on
SpecTokLive == SpecTok /\ WF_vars(NextTok)

(***************************************************************************)
(* Properties of the DFA tokenizer (SpecTok, SpecTokLive).                 *)
(***************************************************************************)
\* C8: for every input the tokenizer comes to return the Eof token, exactly
\* once, and from then on returns None: the stream of tokens is finite.
C8_StreamEnds ==
    <>[](tkz.exhausted /\ tkz.eofs = 1 /\ tkz.last.value \in {"Eof", "None"})

\* C9: next returns None only after the Eof token has been returned.
C9_NoneOnlyAfterEof == tkz.last = NoItem => tkz.exhausted

(***************************************************************************)
(* crates/collections: RingBuffer and RingBufferedIterator.  A buffer is a *)
(* record: data (slot index -> item, "uninit" for memory never written),   *)
(* start, end, is_full.  A buffered iterator is a record: iter (the items  *)
(* the wrapped iterator has yet to give) and buffer.                       *)
(***************************************************************************)
MAX_LOOKAHEAD == 8

\* a slot of MaybeUninit memory that was never written
Uninit == [value |-> "uninit", len |-> 0]

\* Option::None for an item
Nothing == [value |-> "None", len |-> 0]

\* RingBuffer::new, with N = MAX_LOOKAHEAD
NewRingBuffer ==
    [data |-> [k \in 0 .. MAX_LOOKAHEAD - 1 |-> Uninit],
     start |-> 0, end |-> 0, is_full |-> FALSE]

\* RingBuffer::capacity
capacity == MAX_LOOKAHEAD

\* RingBuffer::is_empty
is_empty(b) == b.start = b.end /\ ~b.is_full

\* RingBuffer::len
len(b) ==
    IF b.is_full THEN capacity
    ELSE IF b.end >= b.start THEN b.end - b.start
    ELSE capacity - b.start + b.end

\* RingBuffer::wrap_add
wrap_add(index, num) == (index + num) % capacity

\* RingBuffer::get: the slot read, Nothing when index >= len
get(b, index) ==
    IF index < len(b) THEN b.data[wrap_add(b.start, index)] ELSE Nothing

\* an enqueue that never marks the buffer as full
enqueue_never_full(b, item) ==
    IF b.is_full THEN [b |-> b, err |-> TRUE]
    ELSE LET index == wrap_add(b.end, 1) IN
         [b |-> [b EXCEPT !.end = index, !.data[index] = item], err |-> FALSE]

\* RingBuffer::enqueue: the buffer left; err when the buffer was full
enqueue(b, item) ==
    IF b.is_full THEN [b |-> b, err |-> TRUE]
    ELSE LET index == wrap_add(b.end, 1) IN
         [b |-> [b EXCEPT !.is_full = (len(b) = capacity - 1),
                          !.end = index,
                          !.data[index] = item],
          err |-> FALSE]

\* RingBuffer::dequeue: the buffer left and the slot read, Nothing when empty
dequeue(b) ==
    IF is_empty(b) THEN [b |-> b, ret |-> Nothing]
    ELSE [b |-> [b EXCEPT !.start = wrap_add(b.start, 1), !.is_full = FALSE],
          ret |-> b.data[b.start]]

\* RingBufferedIterator::new
NewRingBufferedIterator(items) == [iter |-> items, buffer |-> NewRingBuffer]

\* the `while let` loop of RingBufferedIterator::peek_nth
RECURSIVE peek_fill(_, _)
peek_fill(it, n) ==
    IF it.iter = <<>> THEN [it |-> it, ret |-> Nothing, overflow |-> FALSE]
    ELSE LET e == enqueue(it.buffer, Head(it.iter))
             it1 == [iter |-> Tail(it.iter), buffer |-> e.b]
         IN  IF e.err THEN [it |-> it1, ret |-> Nothing, overflow |-> TRUE]
             ELSE IF n < len(e.b)
                 THEN [it |-> it1, ret |-> get(e.b, n), overflow |-> FALSE]
             ELSE peek_fill(it1, n)

\* RingBufferedIterator::peek_nth: the iterator left, the slot read (Nothing
\* for None), and whether expect("buffer overflow") panicked
peek_nth(it, n) ==
    IF n >= capacity THEN [it |-> it, ret |-> Nothing, overflow |-> FALSE]
    ELSE IF n < len(it.buffer)
        THEN [it |-> it, ret |-> get(it.buffer, n), overflow |-> FALSE]
    ELSE peek_fill(it, n)

\* RingBufferedIterator::peek
peek(it) == peek_nth(it, 0)

\* RingBufferedIterator::next
RingBufferedIterator_next(it) ==
    LET d == dequeue(it.buffer) IN
    IF d.ret # Nothing THEN [it |-> [it EXCEPT !.buffer = d.b], ret |-> d.ret]
    ELSE IF it.iter = <<>> THEN [it |-> it, ret |-> Nothing]
    ELSE [it |-> [it EXCEPT !.iter = Tail(@)], ret |-> Head(it.iter)]

(***************************************************************************)
(* parser/parser.rs: Parser.  A parser is a record: iter (the buffered     *)
(* iterator), events, token_len, fuel (the struct), looks (the lookaheads  *)
(* asked for since the last advance), panic ("" while none happened).  A token is a  *)
(* record of value and span length.  A read of a buffer slot that was      *)
(* never written is undefined behaviour: it gives some token.              *)
(***************************************************************************)
MAX_FUEL == 256

\* the tokens of the streams, and what a read of unwritten memory may give
StreamTokens ==
    {[value |-> "AWord", len |-> 1], [value |-> "Whitespace", len |-> 2]}

RECURSIVE TokenStreams(_)
TokenStreams(n) ==
    IF n = 0 THEN {<<>>}
    ELSE LET shorter == TokenStreams(n - 1) IN
         shorter \cup {t \o <<x>> : t \in shorter, x \in StreamTokens}

\* Parser::new
NewParser(tokens) ==
    [iter |-> NewRingBufferedIterator(tokens), events |-> <<>>, token_len |-> 0,
     fuel |-> MAX_FUEL, looks |-> 0, panic |-> ""]

\* Parser::eof: the parser left and the answer
Parser_eof(p) ==
    LET r == peek(p.iter) IN
    [p |-> [p EXCEPT !.iter = r.it,
                     !.panic = IF r.overflow THEN "buffer overflow" ELSE @],
     ret |-> (r.ret = Nothing)]

\* Parser::advance; given is what the read of an unwritten slot gives
Parser_advance(p, given) ==
    LET e == Parser_eof(p)
        n == RingBufferedIterator_next(e.p.iter)
        tok == IF n.ret = Uninit THEN given ELSE n.ret
    IN  IF e.p.panic # "" THEN e.p
        ELSE IF e.ret THEN [e.p EXCEPT !.panic = "assertion failed: !self.eof()"]
        ELSE [e.p EXCEPT !.events = Append(@, "Advance"),
                         !.fuel = 256,
                         !.looks = 0,
                         !.iter = n.it,
                         !.token_len = IF n.ret = Nothing THEN @
                                       ELSE @ + tok.len]

\* Parser::nth; the LexToken it returns is not kept
Parser_nth(p, n) ==
    LET r == peek_nth(p.iter, n) IN
    IF p.fuel = 0 THEN [p EXCEPT !.panic = "Parser out of fuel", !.looks = @ + 1]
    ELSE [p EXCEPT !.fuel = @ - 1,
                   !.looks = @ + 1,
                   !.iter = r.it,
                   !.panic = IF r.overflow THEN "buffer overflow" ELSE @]

(***************************************************************************)
(* The fuel counters as a state machine: a Parser over every stream of at  *)
(* most MaxTokens tokens, or a Converter over every text of one piece,     *)
(* driven through their lookahead and advance operations.                  *)
(***************************************************************************)
\* the arguments of nth: the next token, the one after, one past the buffer
NthArgs == {0, 1, MAX_LOOKAHEAD}

InitFuel ==
    /\ \/ /\ prs \in {NewParser(ts) : ts \in TokenStreams(MaxTokens)}
          /\ conv = Idle
       \/ /\ conv \in {NewConverter(gs) : gs \in Texts(1)}
          /\ prs = Idle
    /\ tkz = Idle
    /\ rsv = Idle

\* Parser::advance
ParserAdvance ==
    /\ prs # Idle
    /\ prs.panic = ""
    /\ \E given \in StreamTokens : prs' = Parser_advance(prs, given)
    /\ UNCHANGED <<conv, tkz, rsv>>

\* Parser::nth, and Parser::at and at_any, which are nth(0)
ParserNth ==
    /\ prs # Idle
    /\ prs.panic = ""
    /\ \E n \in NthArgs : prs' = Parser_nth(prs, n)
    /\ UNCHANGED <<conv, tkz, rsv>>

\* Parser::eof
ParserEof ==
    /\ prs # Idle
    /\ prs.panic = ""
    /\ prs' = Parser_eof(prs).p
    /\ UNCHANGED <<conv, tkz, rsv>>

\* Converter::advance
ConverterAdvance ==
    /\ conv # Idle
    /\ ~conv.panic
    /\ ~conv.underflow
    /\ conv' = advance(conv)
    /\ UNCHANGED <<prs, tkz, rsv>>

\* Converter::peek_first and peek_second while the fuel is not 0
ConverterPeek ==
    /\ conv # Idle
    /\ ~conv.panic
    /\ ~conv.underflow
    /\ conv.fuel > 0
    /\ conv' = burn(conv)
    /\ UNCHANGED <<prs, tkz, rsv>>

\* Converter::peek_first and peek_second at fuel 0, built with overflow
\* checks (the default of a debug build): `0 - 1` panics
ConverterPeekChecked ==
    /\ conv # Idle
    /\ ~conv.panic
    /\ ~conv.underflow
    /\ conv.fuel = 0
    /\ conv' = [conv EXCEPT !.panic = TRUE, !.looks = @ + 1]
    /\ UNCHANGED <<prs, tkz, rsv>>

\* Converter::peek_first and peek_second at fuel 0, built without overflow
\* checks (the default of a release build): `0 - 1` wraps
ConverterPeekUnchecked ==
    /\ conv # Idle
    /\ ~conv.panic
    /\ ~conv.underflow
    /\ conv.fuel = 0
    /\ conv' = burn(conv)
    /\ UNCHANGED <<prs, tkz, rsv>>

NextFuel ==
    \/ ParserAdvance \/ ParserNth \/ ParserEof
    \/ ConverterAdvance \/ ConverterPeek
    \/ ConverterPeekChecked \/ ConverterPeekUnchecked

SpecFuel == InitFuel /\ [][NextFuel]_vars

(***************************************************************************)
(* Properties of the fuel counters (SpecFuel).                             *)
(***************************************************************************)
\* the fuel discipline for one counter: the fuel is within 0 .. 256; it is
\* 256 less the lookaheads since the last advance, unless the last of them
\* found the fuel at 0 and panicked, which is then the 257th
FuelInRange(fuel, looks, out_of_fuel) ==
    /\ fuel \in 0 .. 256
    /\ IF out_of_fuel THEN fuel = 0 /\ looks = 257
       ELSE fuel = 256 - looks

\* C10: for the Parser and for the Converter, an advance sets the fuel to
\* 256, a lookahead takes 1 from it, and a lookahead at fuel 0 panics and
\* leaves the fuel alone: the fuel stays in 0 .. 256, never wrapped, and no
\* more than 256 lookaheads are answered after an advance.
C10_FuelGuard ==
    /\ [](prs # Idle =>
            FuelInRange(prs.fuel, prs.looks, prs.panic = "Parser out of fuel"))
    /\ [](conv # Idle => FuelInRange(conv.fuel, conv.looks, conv.panic))
    /\ [][prs # Idle /\ prs.fuel = 0 /\ prs'.looks = prs.looks + 1
             => prs'.panic = "Parser out of fuel"]_vars
    /\ [][conv # Idle /\ conv.fuel = 0 /\ conv'.looks = conv.looks + 1
             => conv'.panic]_vars

(***************************************************************************)
(* The definition resolver (expansion/).  A Resolver is a record: tokens,  *)
(* start and bs are the LexedStr the iterator reads, idx is iter.index()   *)
(* (the index, from 0, of the last token consumed), item the               *)
(* ExpansionStoreItem under construction (the fields of its ExpansionArgs  *)
(* held directly), option_name an Option as a sequence of at most one      *)
(* range, err the error a method returned (kind "Ok" while none), ret the  *)
(* bool a method returned.  Maps are sets of [key, value] records.         *)
(***************************************************************************)
NoError == [kind |-> "Ok", expected |-> "", found |-> "", idx |-> 0]

\* Err(kind) out of a method of the resolver
Fail(r, kind, expected, found) ==
    [r EXCEPT !.err = [kind |-> kind, expected |-> expected,
                       found |-> found, idx |-> 0]]

\* the `?` operator: F goes on from r unless r holds an error
Try(r, F(_)) == IF r.err.kind # "Ok" THEN r ELSE F(r)

\* FxHashMap::insert
map_insert(m, key, value) ==
    {e \in m : e.key # key} \cup {[key |-> key, value |-> value]}

\* an entry that keeps the last index only
map_push_replacing(m, key, idx) == map_insert(m, key, <<idx>>)

\* table.entry(key).and_modify(|it| it.push(idx)).or_insert(vec![idx])
map_push(m, key, idx) ==
    IF \E e \in m : e.key = key
    THEN {IF e.key = key THEN [e EXCEPT !.value = Append(@, idx)] ELSE e : e \in m}
    ELSE m \cup {[key |-> key, value |-> <<idx>>]}

\* Trivia for SyntaxKind
syntax_is_trivia(k) == k \in {"Whitespace", "Newline", "Comment"}

\* ExpansionStoreItem::empty
ExpansionStoreItem_empty(kind) ==
    [kind |-> kind, body |-> [start |-> 0, end |-> 0], second_body |-> <<>>,
     name |-> <<>>, arg_count |-> 0, optional |-> <<>>, optional_named |-> {},
     req_expansion |-> {}, opt_expansion |-> {}]

\* LexerIter::peek_nth(n).unwrap_or(Eof): peek_nth(1) is the next token
iter_peek_nth(r, n) ==
    IF r.idx + n < Len(r.tokens) THEN r.tokens[r.idx + n + 1] ELSE "Eof"

\* LexedStr::start_of_index
start_of_index(r, k) ==
    IF k < Len(r.start) THEN r.start[k + 1] ELSE r.start[Len(r.start)]

\* LexerIter::text: None where the range exceeds the token count
iter_text(r, range) ==
    IF range.end > Len(r.tokens) \/ range.start > range.end
    THEN [some |-> FALSE, text |-> <<>>]
    ELSE [some |-> TRUE,
          text |-> SubSeq(r.bs, start_of_index(r, range.start) + 1,
                          start_of_index(r, range.end))]

\* peek answering CloseBrace, not Eof, at the end of the tokens
peek_closing_at_end(r) ==
    IF iter_peek_nth(r, 1) = "Eof" THEN "CloseBrace" ELSE iter_peek_nth(r, 1)

\* ResExpParser::peek
ResExp_peek(r) == iter_peek_nth(r, 1)

\* ResExpParser::peek_skip_trivia
peek_skip_trivia(r) ==
    LET RECURSIVE from(_)
        from(n) == IF syntax_is_trivia(iter_peek_nth(r, n)) THEN from(n + 1)
                   ELSE iter_peek_nth(r, n)
    IN from(1)

\* ResExpParser::advance
ResExp_advance(r) ==
    IF r.idx + 1 < Len(r.tokens) THEN [r EXCEPT !.idx = @ + 1]
    ELSE Fail(r, "EofReached", "", "")

\* ResExpParser::skip_trivia: advance_while over the trivia
RECURSIVE skip_trivia(_)
skip_trivia(r) ==
    IF r.idx + 1 < Len(r.tokens) /\ syntax_is_trivia(ResExp_peek(r))
    THEN skip_trivia([r EXCEPT !.idx = @ + 1])
    ELSE r

\* ResExpParser::advance_to
RECURSIVE advance_to(_, _)
advance_to(r, kind) ==
    IF r.idx + 1 < Len(r.tokens) /\ ResExp_peek(r) # kind
    THEN advance_to([r EXCEPT !.idx = @ + 1], kind)
    ELSE IF ResExp_peek(r) # "Eof" THEN r
    ELSE Fail(r, "EofReached", "", "")

\* ResExpParser::expect
expect(r, kind, optional) ==
    IF ResExp_peek(r) = kind \/ optional THEN ResExp_advance(r)
    ELSE Fail(r, "UnexpectedToken", kind, ResExp_peek(r))

\* ResExpParser::index
index(r) == r.idx + 1

\* ResExpParser::mark: the Marker holds the index of the peeked token
mark(r) == r.idx + 1

\* a range that ends at the token consumed last, not after it
range_to_last_consumed(r, m) == [start |-> m, end |-> r.idx]

\* ResExpParser::range_from_mark
range_from_mark(r, m) == [start |-> m, end |-> r.idx + 1]

\* the range an index stands for as an IndexRange: the one token
index_range(k) == [start |-> k, end |-> k + 1]

\* str::parse::<u16>: the value of a run of decimal digits, -1 for Err
parse_u16(text) ==
    LET digit(d) == CASE d = "0" -> 0 [] d = "1" -> 1 [] d = "2" -> 2
                      [] d = "3" -> 3 [] d = "4" -> 4 [] d = "5" -> 5
                      [] d = "6" -> 6 [] d = "7" -> 7 [] d = "8" -> 8
                      [] d = "9" -> 9 [] OTHER -> -1
        RECURSIVE value(_)
        value(t) ==
            IF t = <<>> THEN 0
            ELSE LET v == value(SubSeq(t, 1, Len(t) - 1)) IN
                 IF v < 0 \/ digit(t[Len(t)]) < 0 THEN -1
                 ELSE IF 10 * v + digit(t[Len(t)]) > 65535 THEN -1
                 ELSE 10 * v + digit(t[Len(t)])
    IN IF text = <<>> THEN -1 ELSE value(text)

\* ResExpParser::parse::<u16>
ResExp_parse(r, range, skip) ==
    LET t == iter_text(r, range)
        text == IF skip THEN Tail(t.text) ELSE t.text
    IN IF ~t.some THEN [err |-> "FailedToRetrieveText", value |-> 0]
       ELSE IF parse_u16(text) < 0
            THEN [err |-> "FailedToRetrieveTextRange", value |-> 0]
       ELSE [err |-> "Ok", value |-> parse_u16(text)]

\* Resolver::register_arg_count: the caller found at(Number)
register_arg_count(r) ==
    LET num == ResExp_parse(r, index_range(index(r)), FALSE) IN
    IF num.err # "Ok" THEN Fail(r, num.err, "", "")
    ELSE [r EXCEPT !.item.arg_count = num.value]

\* Resolver::register_opt_arg
register_opt_arg(r, m) ==
    [r EXCEPT !.item.optional = Append(@, range_from_mark(r, m))]

\* open_block!: open_brace and open_bracket, the bool returned left in ret
open_block(r, open, optional) ==
    LET r1 == skip_trivia(r)
        opt == optional = "OptionalBlockIdent"
    IN IF optional = "OptionalBlock" /\ ResExp_peek(r1) # open
       THEN [r1 EXCEPT !.ret = TRUE]
       ELSE [expect(r1, open, opt) EXCEPT !.ret = opt]

\* close_block!: close_brace and close_bracket
close_block(r, close, skip) == expect(skip_trivia(r), close, skip)

\* resolving::match_name, with is_allowed_in_name
match_name(r, begin_mark) ==
    LET is_allowed_in_name(q) ==
            iter_peek_nth(q, 2) \in {"AWord", "Underscore", "Number"}
        RECURSIVE rest(_)
        rest(q) ==
            LET t == ResExp_peek(q) IN
            IF (t = "Underscore" /\ is_allowed_in_name(q)) \/ t \in {"AWord", "Number"}
            THEN Try(ResExp_advance(q), rest)
            ELSE q
        first == ResExp_peek(r)
    IN IF first \in {"Underscore", "AWord"} THEN Try(ResExp_advance(r), rest)
       ELSE IF ~iter_text(r, [start |-> begin_mark, end |-> index(r)]).some
            THEN Fail(r, "FailedToRetrieveText", "", "")
       ELSE Fail(r, "InvalidName", "", first)

\* resolving::cmd_name, with Resolver::register_cmd_name
cmd_name(r) ==
    LET register_cmd_name(q) ==
            IF ~iter_text(q, index_range(index(q))).some
            THEN Fail(q, "FailedToRetrieveText", "", "")
            ELSE [q EXCEPT !.item.name = iter_text(q, index_range(index(q))).text]
        r1 == open_block(r, "OpenBrace", "OptionalBlockIdent")
        r2 == skip_trivia(r1)
        r3 == IF ResExp_peek(r2) = "Command"
              THEN Try(register_cmd_name(r2), ResExp_advance)
              ELSE r2
    IN IF r1.err.kind # "Ok" THEN r1
       ELSE Try(r3, LAMBDA x : close_block(x, "CloseBrace", r1.ret))

\* resolving::env_name, with Resolver::register_env_name
env_name(r) ==
    LET register_env_name(q, m) ==
            IF ~iter_text(q, range_from_mark(q, m)).some
            THEN Fail(q, "FailedToRetrieveText", "", "")
            ELSE [q EXCEPT !.item.name = iter_text(q, range_from_mark(q, m)).text]
        r1 == open_block(r, "OpenBrace", "Required")
        r2 == match_name(skip_trivia(r1), mark(r1))
        r3 == Try(r2, LAMBDA x : register_env_name(x, mark(r1)))
    IN IF r1.err.kind # "Ok" THEN r1
       ELSE Try(r3, LAMBDA x : close_block(x, "CloseBrace", r1.ret))

\* resolving::args, with Resolver::register_empty_arg_count; at_peek(Number)
\* looks at peek_second, which is peek_nth(2)
args(r) ==
    LET register_empty_arg_count(q) == [q EXCEPT !.item.arg_count = 0]
        r0 == skip_trivia(r)
        r1 == open_block(r0, "OpenBracket", "OptionalBlockIdent")
        r2 == skip_trivia(r1)
        r3 == IF ResExp_peek(r2) = "Number"
              THEN Try(register_arg_count(r2), ResExp_advance)
              ELSE r2
    IN IF ~(ResExp_peek(r0) = "OpenBracket" \/ iter_peek_nth(r0, 2) = "Number")
       THEN register_empty_arg_count(r0)
       ELSE IF r1.err.kind # "Ok" THEN r1
       ELSE Try(r3, LAMBDA x : close_block(x, "CloseBracket", r1.ret))

\* resolving::opt_named_arg, with Resolver::register_opt_named_arg, whose
\* option_name is Some by its one caller
opt_named_arg(r) ==
    LET register_opt_named_arg(q, m) ==
            IF ~iter_text(q, q.option_name[1]).some
            THEN Fail([q EXCEPT !.option_name = <<>>], "FailedToRetrieveText", "", "")
            ELSE [q EXCEPT !.option_name = <<>>,
                           !.item.optional_named =
                               map_insert(@, iter_text(q, q.option_name[1]).text,
                                          range_from_mark(q, m))]
        RECURSIVE value(_, _)
        value(q, m) ==
            LET t == ResExp_peek(q) IN
            CASE t = "CloseBracket" -> register_opt_named_arg(q, m)
              [] t = "Comma" -> Try(register_opt_named_arg(q, m), ResExp_advance)
              [] t \in {"OpenBracket", "OpenBrace", "CloseBrace"} ->
                    Fail(q, "UnexpectedOpeningToken", "", t)
              [] OTHER -> Try(ResExp_advance(q), LAMBDA x : value(x, m))
    IN Try(Try(advance_to(r, "Equal"), ResExp_advance),
           LAMBDA x : value(x, mark(x)))

\* resolving::opt_args, with Resolver::mark_opt_named_arg_name
opt_args(r) ==
    LET mark_opt_named_arg_name(q, m) ==
            [q EXCEPT !.option_name = <<range_from_mark(q, m)>>]
        RECURSIVE entries(_, _)
        entries(q, m) ==
            LET q1 == [match_name(q, m) EXCEPT !.err = NoError]
                t == peek_skip_trivia(q1)
                q2 == CASE t = "Equal" ->
                             opt_named_arg(mark_opt_named_arg_name(q1, m))
                        [] t = "Comma" ->
                             Try(register_opt_arg(q1, m), ResExp_advance)
                        [] OTHER -> ResExp_advance(q1)
            IN IF t = "CloseBracket" THEN register_opt_arg(q1, m)
               ELSE IF q2.err.kind # "Ok" THEN q2
               ELSE IF peek_skip_trivia(q2) = "CloseBracket" THEN q2
               ELSE entries(q2, IF t = "Comma" THEN mark(q2) ELSE m)
        r1 == open_block(r, "OpenBracket", "OptionalBlock")
    IN IF r1.err.kind # "Ok" \/ r1.ret THEN r1
       ELSE Try(entries(r1, mark(r1)),
                LAMBDA x : close_block(x, "CloseBracket", r1.ret))

\* body with a loop that does not count the braces it passes and ends at
\* the first closing brace
body_ending_at_first_close(r, first_body) ==
    LET register_smpl_macro_token(q) ==
            LET key == ResExp_parse(q, index_range(index(q)), TRUE) IN
            IF key.err # "Ok" THEN Fail(q, key.err, "", "")
            ELSE [q EXCEPT !.item.req_expansion = map_push(@, key.value, index(q))]
        register_cmplx_macro_token(q) ==
            LET t == iter_text(q, index_range(index(q))) IN
            IF ~t.some THEN Fail(q, "FailedToRetrieveText", "", "")
            ELSE [q EXCEPT !.item.opt_expansion =
                               map_push(@, Tail(t.text), index(q))]
        register_body(q, marker) ==
            [q EXCEPT !.item.body = range_from_mark(q, marker)]
        register_second_body(q, marker) ==
            [q EXCEPT !.item.second_body = <<range_from_mark(q, marker)>>]
        RECURSIVE scan(_, _)
        scan(q, brace_level) ==
            LET t == ResExp_peek(q)
                q1 == CASE t = "SimpleMacroExpansionToken" ->
                             register_smpl_macro_token(q)
                        [] t = "ComplexMacroExpansionToken" ->
                             register_cmplx_macro_token(q)
                        [] OTHER -> q
                level == brace_level
            IN IF brace_level < 0 THEN Fail(q, "UnexpectedToken", "OpenBrace", t)
               ELSE IF t = "CloseBrace" /\ brace_level = 0 THEN q
               ELSE Try(Try(q1, ResExp_advance), LAMBDA x : scan(x, level))
        r1 == open_block(r, "OpenBrace", "Required")
    IN IF r1.err.kind # "Ok" THEN r1
       ELSE Try(scan(r1, 0),
                LAMBDA x : close_block(IF first_body THEN register_body(x, mark(r1))
                                       ELSE register_second_body(x, mark(r1)),
                                       "CloseBrace", r1.ret))

\* resolving::body, with Resolver::register_smpl_macro_token,
\* register_cmplx_macro_token, register_body and register_second_body
body(r, first_body) ==
    LET register_smpl_macro_token(q) ==
            LET key == ResExp_parse(q, index_range(index(q)), TRUE) IN
            IF key.err # "Ok" THEN Fail(q, key.err, "", "")
            ELSE [q EXCEPT !.item.req_expansion = map_push(@, key.value, index(q))]
        register_cmplx_macro_token(q) ==
            LET t == iter_text(q, index_range(index(q))) IN
            IF ~t.some THEN Fail(q, "FailedToRetrieveText", "", "")
            ELSE [q EXCEPT !.item.opt_expansion =
                               map_push(@, Tail(t.text), index(q))]
        register_body(q, marker) ==
            [q EXCEPT !.item.body = range_from_mark(q, marker)]
        register_second_body(q, marker) ==
            [q EXCEPT !.item.second_body = <<range_from_mark(q, marker)>>]
        RECURSIVE scan(_, _)
        scan(q, brace_level) ==
            LET t == ResExp_peek(q)
                q1 == CASE t = "SimpleMacroExpansionToken" ->
                             register_smpl_macro_token(q)
                        [] t = "ComplexMacroExpansionToken" ->
                             register_cmplx_macro_token(q)
                        [] OTHER -> q
                level == CASE t = "OpenBrace" -> brace_level + 1
                           [] t = "CloseBrace" -> brace_level - 1
                           [] OTHER -> brace_level
            IN IF brace_level < 0 THEN Fail(q, "UnexpectedToken", "OpenBrace", t)
               ELSE IF t = "CloseBrace" /\ brace_level = 0 THEN q
               ELSE Try(Try(q1, ResExp_advance), LAMBDA x : scan(x, level))
        r1 == open_block(r, "OpenBrace", "Required")
    IN IF r1.err.kind # "Ok" THEN r1
       ELSE Try(scan(r1, 0),
                LAMBDA x : close_block(IF first_body THEN register_body(x, mark(r1))
                                       ELSE register_second_body(x, mark(r1)),
                                       "CloseBrace", r1.ret))

\* resolving::new_command
new_command(r) ==
    Try(Try(Try(cmd_name(r), args), opt_args), LAMBDA x : body(x, TRUE))

\* an environment resolved with one body, as a command is
new_environment_with_one_body(r) ==
    Try(Try(Try(env_name(r), args), opt_args), LAMBDA x : body(x, TRUE))

\* resolving::new_environment
new_environment(r) ==
    Try(Try(Try(Try(env_name(r), args), opt_args), LAMBDA x : body(x, TRUE)),
        LAMBDA x : body(x, FALSE))

\* resolving::def
def(r) == new_command(r)

\* Resolver::new over lexed.iter_from(def.idx): the iterator stands on the
\* definition's own token, so that the next token is the one after it
NewResolver(lexed, definition) ==
    [tokens |-> lexed.tokens, start |-> lexed.start, bs |-> lexed.bs,
     idx |-> definition.idx, item |-> ExpansionStoreItem_empty(definition.kind),
     option_name |-> <<>>, err |-> NoError, ret |-> FALSE]

\* res.map_err(|e| e.attach_marker(self.mark())): the error takes the mark
\* of where the resolver stood
attach_marker(res) ==
    IF res.err.kind # "Ok" THEN [res EXCEPT !.err.idx = mark(res)] ELSE res

\* Resolver::resolve
Resolver_resolve(r) ==
    attach_marker(CASE r.item.kind = "Macro" -> new_command(r)
                    [] r.item.kind = "Environment" -> new_environment(r)
                    [] r.item.kind = "Def" -> def(r))

\* Resolver::finish: item is Ok(item) where err is of kind "Ok", else Err(err)
finish(r) == Resolver_resolve(r)

\* ExpansionStore::default
ExpansionStore_default == [def |-> <<>>, mac |-> <<>>, env |-> <<>>, index |-> {}]

\* an insert that leaves the index entry of a name that has one
ExpansionStore_insert_keeping_first(s, item) ==
    LET s1 == CASE item.kind = "Macro" -> [s EXCEPT !.mac = Append(@, item)]
                [] item.kind = "Def" -> [s EXCEPT !.def = Append(@, item)]
                [] item.kind = "Environment" -> [s EXCEPT !.env = Append(@, item)]
        idx == CASE item.kind = "Macro" -> Len(s1.mac) - 1
                 [] item.kind = "Def" -> Len(s1.def) - 1
                 [] item.kind = "Environment" -> Len(s1.env) - 1
    IN IF \E e \in s.index : e.key = item.name THEN s1
       ELSE [s1 EXCEPT !.index =
                 map_insert(@, item.name, [idx |-> idx, kind |-> item.kind])]

\* ExpansionStore::insert
ExpansionStore_insert(s, item) ==
    LET s1 == CASE item.kind = "Macro" -> [s EXCEPT !.mac = Append(@, item)]
                [] item.kind = "Def" -> [s EXCEPT !.def = Append(@, item)]
                [] item.kind = "Environment" -> [s EXCEPT !.env = Append(@, item)]
        idx == CASE item.kind = "Macro" -> Len(s1.mac) - 1
                 [] item.kind = "Def" -> Len(s1.def) - 1
                 [] item.kind = "Environment" -> Len(s1.env) - 1
    IN [s1 EXCEPT !.index =
               map_insert(@, item.name, [idx |-> idx, kind |-> item.kind])]

\* a get that returns the last item of the kind the index names
ExpansionStore_get_last_of_kind(s, key) ==
    IF ~\E e \in s.index : e.key = key THEN <<>>
    ELSE LET idx == (CHOOSE e \in s.index : e.key = key).value
             vec == CASE idx.kind = "Macro" -> s.mac
                      [] idx.kind = "Def" -> s.def
                      [] idx.kind = "Environment" -> s.env
         IN <<vec[Len(vec)]>>

\* ExpansionStore::get: None is <<>>, Some(item) is <<item>>
ExpansionStore_get(s, key) ==
    IF ~\E e \in s.index : e.key = key THEN <<>>
    ELSE LET idx == (CHOOSE e \in s.index : e.key = key).value
             vec == CASE idx.kind = "Macro" -> s.mac
                      [] idx.kind = "Def" -> s.def
                      [] idx.kind = "Environment" -> s.env
         IN IF idx.idx < Len(vec) THEN <<vec[idx.idx + 1]>> ELSE <<>>

\* FromIterator for ExpansionStore: the items inserted in their order
RECURSIVE ExpansionStore_from_iter(_)
ExpansionStore_from_iter(items) ==
    IF items = <<>> THEN ExpansionStore_default
    ELSE ExpansionStore_insert(
             ExpansionStore_from_iter(SubSeq(items, 1, Len(items) - 1)),
             items[Len(items)])

\* partition_result with every outcome, failed ones too, put in the store
partition_result_storing_failed(s, res) ==
    [s EXCEPT !.next = @ + 1,
              !.store = ExpansionStore_insert(@, res.item),
              !.errors = IF res.err.kind = "Ok" THEN @ ELSE Append(@, res.err)]

\* partition_result of a resolve that, called again, reports every outcome
\* as an error
partition_result_failing_again(s, res) ==
    IF res.err.kind = "Ok" /\ s.first = <<>>
    THEN [s EXCEPT !.next = @ + 1, !.store = ExpansionStore_insert(@, res.item)]
    ELSE [s EXCEPT !.next = @ + 1, !.errors = Append(@, res.err)]

\* one element of partition_result in resolve: Ok(item) extends the store,
\* Err(error) the list of errors
partition_result(s, res) ==
    IF res.err.kind = "Ok"
    THEN [s EXCEPT !.next = @ + 1, !.store = ExpansionStore_insert(@, res.item)]
    ELSE [s EXCEPT !.next = @ + 1, !.errors = Append(@, res.err)]

(***************************************************************************)
(* resolve(lexed) as a state machine: lexed is LexedStr::new of a unit of  *)
(* at most two definitions, each a head, an argument count block, a block  *)
(* of optional arguments and bodies; one step per Definition, in the order *)
(* of lexed.definitions().  next counts the definitions resolved.          *)
(***************************************************************************)
MaxOptArgs == 2

Heads ==
    { <<"\\", "n", "e", "w", "c", "o", "m", "m", "a", "n", "d", "{", "\\", "a", "}">>,
      <<"\\", "n", "e", "w", "e", "n", "v", "i", "r", "o", "n", "m", "e", "n", "t",
        "{", "a", "}">>,
      <<"\\", "d", "e", "f", "{", "\\", "a", "}">> }

ArgBlocks == {<<>>} \cup {<<"[", d, "]">> : d \in Digits}

\* k default values, separated by commas
RECURSIVE Defaults(_)
Defaults(k) == IF k = 1 THEN <<"a">> ELSE Defaults(k - 1) \o <<",", "a">>

OptBlocks ==
    {<<>>, <<"[", "a", " ", "=", "1", "]">>,
     <<"[", "a", "=", "1", ",", "c", "=", "1", "]">>,
     <<"[", "a", " ", ",", "a", "]">>}
        \cup {<<"[">> \o Defaults(k) \o <<"]">> : k \in 1 .. MaxOptArgs}

\* one body and nothing more, or two bodies with a blank between
TwoBodies == <<"{", "#", "a", "{", "#", "a", "}", "}", " ", "{", "#", "1", "}">>

Bodies ==
    { <<"{", "}">>, <<"{", "#", "1", "}">>, <<"{", "1", "}">>, TwoBodies,
      <<"{", "a">> }

DefinitionTexts ==
    {h \o a \o o \o b : h \in Heads, a \in ArgBlocks, o \in OptBlocks, b \in Bodies}

\* the definitions a unit of two pairs any definition with
Partners == {h \o b : h \in Heads, b \in {<<"{", "}">>, TwoBodies}}

Units ==
    {<<>>} \cup DefinitionTexts
        \cup {d \o e : d \in DefinitionTexts, e \in Partners}
        \cup {e \o d : d \in DefinitionTexts, e \in Partners}

\* resolve(&lexed) before the first definition, lexed being a LexedStr::new;
\* first is what an earlier call of resolve(&lexed) returned, if there was one
NewResolve(lexed) ==
    [lexed |-> [tokens |-> lexed.tokens, start |-> lexed.start, bs |-> lexed.bs,
                definitions |-> lexed.definitions],
     next |-> 0, store |-> ExpansionStore_default, errors |-> <<>>,
     first |-> <<>>]

InitResolve ==
    /\ rsv \in {NewResolve(transform(NewConverter(gs))) : gs \in Units}
    /\ conv = Idle
    /\ tkz = Idle
    /\ prs = Idle

\* the outcome of the closure of resolve for the definition that is next
NextOutcome ==
    finish(NewResolver(rsv.lexed, rsv.lexed.definitions[rsv.next + 1]))

\* resolve: the next definition resolves and its item goes to the store
ResolveStored ==
    /\ rsv # Idle
    /\ rsv.next < Len(rsv.lexed.definitions)
    /\ NextOutcome.err.kind = "Ok"
    /\ rsv' = partition_result(rsv, NextOutcome)
    /\ UNCHANGED <<conv, tkz, prs>>

\* resolve: the next definition fails and its error goes to the list
ResolveFailed ==
    /\ rsv # Idle
    /\ rsv.next < Len(rsv.lexed.definitions)
    /\ NextOutcome.err.kind # "Ok"
    /\ rsv' = partition_result(rsv, NextOutcome)
    /\ UNCHANGED <<conv, tkz, prs>>

\* resolve(&lexed) called a second time on the same LexedStr, once the first
\* call has returned its store and its errors
ResolveAgain ==
    /\ rsv # Idle
    /\ rsv.next = Len(rsv.lexed.definitions)
    /\ rsv.next > 0
    /\ rsv.first = <<>>
    /\ rsv' = [NewResolve(rsv.lexed) EXCEPT
                   !.first = <<[store |-> rsv.store, errors |-> rsv.errors]>>]
    /\ UNCHANGED <<conv, tkz, prs>>

NextResolve == ResolveStored \/ ResolveFailed \/ ResolveAgain

SpecResolve == InitResolve /\ [][NextResolve]_vars

\* the items of a store, whatever their kind
StoreItems(s) == s.def \o s.mac \o s.env

\* C3: every item resolve() places in the Expansion Store has
\* arg_count >= optional.len(), whatever count is written in [N] and however
\* many positional defaults the block of optional arguments holds.
C3_ArgCountCoversOptional ==
    rsv # Idle =>
        \A k \in 1 .. Len(StoreItems(rsv.store)) :
            StoreItems(rsv.store)[k].arg_count
                >= Len(StoreItems(rsv.store)[k].optional)

\* the outcome of definition k of the unit, resolved by a Resolver of its own
OutcomeOf(k) == finish(NewResolver(rsv.lexed, rsv.lexed.definitions[k]))

\* the definitions among the first k that resolve (ok) or fail (~ok)
OutcomesUpTo(k, ok) == {j \in 1 .. k : (OutcomeOf(j).err.kind = "Ok") = ok}

\* the items stored for the definitions of one kind among the first k
SameKindUpTo(k, kind) ==
    {j \in OutcomesUpTo(k, TRUE) : rsv.lexed.definitions[j].kind = kind}

\* the vector of the store that holds the items of a kind
StoreVec(s, kind) ==
    CASE kind = "Macro" -> s.mac [] kind = "Def" -> s.def
      [] kind = "Environment" -> s.env

\* C4: resolve() produces exactly one outcome per Definition: the items in
\* the store and the errors reported add up to the definitions resolved, a
\* failed definition leaves its error and no item, and the item of a
\* definition is the one its own Resolver yields, whether or not other
\* definitions of the unit fail.
C4_OneOutcomePerDefinition ==
    rsv # Idle =>
        /\ rsv.next <= Len(rsv.lexed.definitions)
        /\ Len(StoreItems(rsv.store)) + Len(rsv.errors) = rsv.next
        /\ Len(StoreItems(rsv.store)) = Cardinality(OutcomesUpTo(rsv.next, TRUE))
        /\ \A k \in 1 .. rsv.next :
             LET kind == rsv.lexed.definitions[k].kind IN
             IF OutcomeOf(k).err.kind = "Ok"
             THEN StoreVec(rsv.store, kind)[Cardinality(SameKindUpTo(k, kind))]
                      = OutcomeOf(k).item
             ELSE rsv.errors[Cardinality(OutcomesUpTo(k, FALSE))] = OutcomeOf(k).err

\* C4 witness: a unit of two definitions all resolved, the first failed and
\* the second stored
C4_Witness ==
    /\ rsv # Idle
    /\ rsv.next = 2
    /\ Len(rsv.lexed.definitions) = 2
    /\ OutcomeOf(1).err.kind # "Ok"
    /\ OutcomeOf(2).err.kind = "Ok"
    /\ Len(StoreItems(rsv.store)) = 1
    /\ Len(rsv.errors) = 1

(***************************************************************************)
(* The shape of a definition, read off the tokens of the unit alone:       *)
(* token indices count from 0, as the ranges of the items do.              *)
(***************************************************************************)
TokenAt(l, i) == IF i >= 0 /\ i < Len(l.tokens) THEN l.tokens[i + 1] ELSE "Eof"

\* the first index at or after i whose token is not trivia
RECURSIVE NextSolid(_, _)
NextSolid(l, i) ==
    IF syntax_is_trivia(TokenAt(l, i)) THEN NextSolid(l, i + 1) ELSE i

\* the first index at or after i whose token is of the kind, Len(tokens) if none
RECURSIVE FindKind(_, _, _)
FindKind(l, i, kind) ==
    IF i >= Len(l.tokens) \/ TokenAt(l, i) = kind THEN i
    ELSE FindKind(l, i + 1, kind)

\* the index of the brace that closes the group opened at i - 1, given the
\* nesting depth at i; -1 when the group does not close
RECURSIVE CloseFrom(_, _, _)
CloseFrom(l, i, depth) ==
    IF i >= Len(l.tokens) \/ TokenAt(l, i) = "Eof" THEN -1
    ELSE IF TokenAt(l, i) = "OpenBrace" THEN CloseFrom(l, i + 1, depth + 1)
    ELSE IF TokenAt(l, i) = "CloseBrace"
         THEN IF depth = 0 THEN i ELSE CloseFrom(l, i + 1, depth - 1)
    ELSE CloseFrom(l, i + 1, depth)

\* the brace that matches the one at i, -1 when token i opens no closed group
MatchClose(l, i) ==
    IF TokenAt(l, i) = "OpenBrace" THEN CloseFrom(l, i + 1, 0) ELSE -1

\* where the blocks of the definition at token d stand: the name group ends
\* at nameEnd; a count block is a bracket block of one number; a block of
\* optional arguments is the bracket block that follows; then the body
Layout(l, d) ==
    LET nameEnd == FindKind(l, d + 1, "CloseBrace")
        p == NextSolid(l, nameEnd + 1)
        n == NextSolid(l, p + 1)
        c == NextSolid(l, n + 1)
        hasCount == /\ TokenAt(l, p) = "OpenBracket"
                    /\ TokenAt(l, n) = "Number"
                    /\ TokenAt(l, c) = "CloseBracket"
        q == IF hasCount THEN NextSolid(l, c + 1) ELSE p
        optClose == FindKind(l, q + 1, "CloseBracket")
        hasOpt == TokenAt(l, q) = "OpenBracket" /\ optClose < Len(l.tokens)
        b == IF hasOpt THEN NextSolid(l, optClose + 1) ELSE q
    IN [nameEnd |-> nameEnd, hasCount |-> hasCount, countAt |-> n,
        hasOpt |-> hasOpt, optOpen |-> q, optClose |-> optClose,
        bodyOpen |-> b, bodyClose |-> MatchClose(l, b),
        secondOpen |-> NextSolid(l, MatchClose(l, b) + 1),
        secondClose |-> MatchClose(l, NextSolid(l, MatchClose(l, b) + 1))]

\* the definition has the bodies its kind asks for, each a closed brace group
HasBodies(y, kind) ==
    /\ y.bodyClose >= 0
    /\ kind = "Environment" => y.secondClose >= 0

\* C11 for one definition of layout y and outcome o
ArgCountAsWritten(l, y, kind, o) ==
    /\ y.hasCount /\ o.err.kind = "Ok" =>
           o.item.arg_count = parse_u16(iter_text(l, index_range(y.countAt)).text)
    /\ ~y.hasCount /\ ~y.hasOpt /\ HasBodies(y, kind) =>
           /\ o.err.kind = "Ok"
           /\ o.item.arg_count = 0
           /\ o.item.body = [start |-> y.bodyOpen + 1, end |-> y.bodyClose]

\* C11: a definition whose name group is followed by [N] gets arg_count = N;
\* a definition whose name group is followed directly by its body { ... }
\* gets arg_count 0 and that brace group as its body, whatever the first token
\* inside the body is.
C11_ArgCount ==
    rsv # Idle =>
        \A k \in 1 .. rsv.next :
            ArgCountAsWritten(rsv.lexed,
                              Layout(rsv.lexed, rsv.lexed.definitions[k].idx),
                              rsv.lexed.definitions[k].kind, OutcomeOf(k))

\* C12 for one definition of layout y and outcome o
OptBlockWithoutCount(y, kind, o) ==
    ~y.hasCount /\ y.hasOpt /\ HasBodies(y, kind) =>
        /\ o.err.kind = "Ok"
        /\ o.item.arg_count = 0
        /\ o.item.optional # <<>> \/ o.item.optional_named # {}
        /\ o.item.body = [start |-> y.bodyOpen + 1, end |-> y.bodyClose]

\* C12: a definition of the form {name}[opt-args]{body}, with no count block,
\* resolves successfully with arg_count = 0, its bracket block read as the
\* block of optional arguments and the brace group after it as the body: no
\* token is consumed in place of the absent count block.
C12_NoCountBlock ==
    rsv # Idle =>
        \A k \in 1 .. rsv.next :
            OptBlockWithoutCount(Layout(rsv.lexed, rsv.lexed.definitions[k].idx),
                                 rsv.lexed.definitions[k].kind, OutcomeOf(k))

\* the tokens that end the entries of the block of optional arguments: its
\* commas and its closing bracket
Separators(l, y) ==
    {i \in y.optOpen + 1 .. y.optClose :
        TokenAt(l, i) = "Comma" \/ i = y.optClose}

\* the token before the entry that separator e ends: the separator before
\* it, or the opening bracket
EntryOpen(l, y, e) ==
    CHOOSE s \in Separators(l, y) \cup {y.optOpen} :
        /\ s < e
        /\ \A t \in Separators(l, y) : t < e => t <= s

\* the place of the entry that separator e ends among the entries
EntryRank(l, y, e) == Cardinality({s \in Separators(l, y) : s <= e})

\* the block of optional arguments holds an entry with an equals sign
HasNamedEntry(l, y) ==
    \E i \in y.optOpen + 1 .. y.optClose - 1 : TokenAt(l, i) = "Equal"

\* the range lies in the entry that separator e ends and covers every token
\* of it that is not trivia
CoversEntry(l, y, e, range) ==
    /\ EntryOpen(l, y, e) < range.start
    /\ range.end <= e
    /\ \A j \in EntryOpen(l, y, e) + 1 .. e - 1 :
           ~syntax_is_trivia(TokenAt(l, j)) => range.start <= j /\ j < range.end

\* C13 for one definition of layout y whose resolved item is item
PositionalDefaults(l, y, item) ==
    y.hasOpt /\ ~HasNamedEntry(l, y) =>
        /\ Len(item.optional) = Cardinality(Separators(l, y))
        /\ \A e \in Separators(l, y) :
               EntryRank(l, y, e) <= Len(item.optional) =>
                   CoversEntry(l, y, e, item.optional[EntryRank(l, y, e)])

\* C13: for a block of optional arguments of k comma-separated entries, none
\* with an equals sign, the resolved item has exactly k ranges in optional,
\* in order, the i-th covering the tokens of the i-th default value, also
\* when whitespace stands before or after the commas.
C13_PositionalDefaults ==
    rsv # Idle =>
        \A k \in 1 .. rsv.next :
            OutcomeOf(k).err.kind = "Ok" =>
                PositionalDefaults(rsv.lexed,
                                   Layout(rsv.lexed, rsv.lexed.definitions[k].idx),
                                   OutcomeOf(k).item)

\* the separators whose entries hold an equals sign
NamedSeparators(l, y) ==
    {e \in Separators(l, y) :
        \E q \in EntryOpen(l, y, e) + 1 .. e - 1 : TokenAt(l, q) = "Equal"}

\* the first equals sign of the entry that separator e ends
EntryEqual(l, y, e) ==
    FindKind(l, EntryOpen(l, y, e) + 1, "Equal")

\* the source text of the name of the entry: the tokens before the equals
\* sign, without the trivia around them
EntryName(l, y, e) ==
    LET first == NextSolid(l, EntryOpen(l, y, e) + 1)
        last == CHOOSE j \in first .. EntryEqual(l, y, e) :
                    /\ \A i \in j .. EntryEqual(l, y, e) - 1 :
                           syntax_is_trivia(TokenAt(l, i))
                    /\ j = first \/ ~syntax_is_trivia(TokenAt(l, j - 1))
    IN iter_text(l, [start |-> first, end |-> last]).text

\* C14 for one definition of layout y whose resolved item is item
NamedDefaults(l, y, item) ==
    y.hasOpt =>
        /\ item.optional_named =
               {[key |-> EntryName(l, y, e),
                 value |-> [start |-> EntryEqual(l, y, e) + 1, end |-> e]] :
                    e \in NamedSeparators(l, y)}
        /\ \A i \in 1 .. Len(item.optional) :
               \A e \in NamedSeparators(l, y) :
                   \/ item.optional[i].end <= EntryOpen(l, y, e) + 1
                   \/ item.optional[i].start >= e

\* C14: every name = value entry of a block of optional arguments, the second
\* and later ones too, maps in optional_named exactly the source text of the
\* name to the range of the value (from the token after the equals sign up
\* to, not including, the comma or bracket that ends the entry), and adds
\* nothing to optional.
C14_NamedDefaults ==
    rsv # Idle =>
        \A k \in 1 .. rsv.next :
            OutcomeOf(k).err.kind = "Ok" =>
                NamedDefaults(rsv.lexed,
                              Layout(rsv.lexed, rsv.lexed.definitions[k].idx),
                              OutcomeOf(k).item)

\* the braces opened less the braces closed by the tokens of [s, i)
RECURSIVE Depth(_, _, _)
Depth(l, s, i) ==
    IF i <= s THEN 0
    ELSE Depth(l, s, i - 1)
             + (IF TokenAt(l, i - 1) = "OpenBrace" THEN 1
                ELSE IF TokenAt(l, i - 1) = "CloseBrace" THEN -1 ELSE 0)

\* the range is the inside of one brace group: an opening brace before it,
\* the brace that closes it at its end, the nesting between never negative
IsBraceGroup(l, range) ==
    /\ 0 < range.start
    /\ range.start <= range.end
    /\ TokenAt(l, range.start - 1) = "OpenBrace"
    /\ TokenAt(l, range.end) = "CloseBrace"
    /\ \A i \in range.start .. range.end : Depth(l, range.start, i) >= 0
    /\ Depth(l, range.start, range.end) = 0

\* C15: for every definition that resolves, the body range [s, e) starts right
\* after the body's opening brace, token e is the closing brace that matches
\* it, the braces inside are balanced and the nesting never goes negative
\* (the second body of an environment likewise).
C15_BodyIsBraceGroup ==
    rsv # Idle =>
        \A k \in 1 .. Len(StoreItems(rsv.store)) :
            /\ IsBraceGroup(rsv.lexed, StoreItems(rsv.store)[k].body)
            /\ \A j \in 1 .. Len(StoreItems(rsv.store)[k].second_body) :
                   IsBraceGroup(rsv.lexed, StoreItems(rsv.store)[k].second_body[j])

\* a stored body with a brace group nested in it
C15_Witness ==
    /\ rsv # Idle
    /\ \E k \in 1 .. Len(StoreItems(rsv.store)) :
           \E i \in StoreItems(rsv.store)[k].body.start
                        .. StoreItems(rsv.store)[k].body.end - 1 :
               TokenAt(rsv.lexed, i) = "OpenBrace"

\* the members of a finite set of numbers, in increasing order
Increasing(S) ==
    CHOOSE q \in [1 .. Cardinality(S) -> S] :
        \A i \in 1 .. Cardinality(S) - 1 : q[i] < q[i + 1]

\* the indices of the tokens of a kind inside the bodies of an item
ExpansionTokens(l, item, kind) ==
    {i \in 0 .. Len(l.tokens) - 1 :
        /\ TokenAt(l, i) = kind
        /\ \/ item.body.start <= i /\ i < item.body.end
           \/ \E j \in 1 .. Len(item.second_body) :
                  item.second_body[j].start <= i /\ i < item.second_body[j].end}

\* the text of token i after its first character, the hash sign
AfterHash(l, i) == Tail(iter_text(l, index_range(i)).text)

\* the table of the numbered parameters that the bodies of an item hold
RequiredTable(l, item) ==
    LET at == ExpansionTokens(l, item, "SimpleMacroExpansionToken") IN
    {[key |-> n,
      value |-> Increasing({i \in at : parse_u16(AfterHash(l, i)) = n})] :
         n \in {parse_u16(AfterHash(l, i)) : i \in at}}

\* the table of the named parameters that the bodies of an item hold
NamedTable(l, item) ==
    LET at == ExpansionTokens(l, item, "ComplexMacroExpansionToken") IN
    {[key |-> n, value |-> Increasing({i \in at : AfterHash(l, i) = n})] :
         n \in {AfterHash(l, i) : i \in at}}

\* C16: for every definition that resolves, req_expansion[n] and
\* opt_expansion[name] list, in strictly increasing order, exactly the indices
\* of the tokens #n and #name inside body or second_body, keyed by the text
\* after the hash sign: none outside the bodies, none missed.
C16_ExpansionTables ==
    rsv # Idle =>
        \A k \in 1 .. Len(StoreItems(rsv.store)) :
            /\ StoreItems(rsv.store)[k].req_expansion
                   = RequiredTable(rsv.lexed, StoreItems(rsv.store)[k])
            /\ StoreItems(rsv.store)[k].opt_expansion
                   = NamedTable(rsv.lexed, StoreItems(rsv.store)[k])

\* a stored item with a parameter that its bodies use twice and a parameter
\* that its second body uses
C16_Witness ==
    /\ rsv # Idle
    /\ \E k \in 1 .. Len(StoreItems(rsv.store)) :
           /\ \E e \in StoreItems(rsv.store)[k].opt_expansion : Len(e.value) = 2
           /\ \E e \in StoreItems(rsv.store)[k].req_expansion :
                  \E j \in 1 .. Len(StoreItems(rsv.store)[k].second_body) :
                      e.value[1] >= StoreItems(rsv.store)[k].second_body[j].start

\* C17 for one item of the store
SecondBodyOfEnvironment(l, item) ==
    /\ item.second_body # <<>> <=> item.kind = "Environment"
    /\ Len(item.second_body) <= 1
    /\ \A j \in 1 .. Len(item.second_body) :
           /\ TokenAt(l, NextSolid(l, item.body.end + 1)) = "OpenBrace"
           /\ item.second_body[j]
                  = [start |-> NextSolid(l, item.body.end + 1) + 1,
                     end |-> MatchClose(l, NextSolid(l, item.body.end + 1))]
           /\ item.body.end < item.second_body[j].start

\* C17: a resolved item has a second body exactly when its kind is
\* Environment; the second range is the brace group that follows the first
\* body, trivia between them skipped, and lies entirely after the first body.
C17_SecondBody ==
    rsv # Idle =>
        \A k \in 1 .. Len(StoreItems(rsv.store)) :
            SecondBodyOfEnvironment(rsv.lexed, StoreItems(rsv.store)[k])

\* a stored environment whose bodies have trivia between them, beside a
\* stored item of another kind
C17_Witness ==
    /\ rsv # Idle
    /\ \E k \in 1 .. Len(rsv.store.env) :
           TokenAt(rsv.lexed, rsv.store.env[k].body.end + 1) = "Whitespace"
    /\ Len(rsv.store.mac) + Len(rsv.store.def) > 0

(***************************************************************************)
(* The marks of a ResExpParser as a state machine: the parser of a         *)
(* Resolver stands on a definition of a unit; a step takes a mark or       *)
(* consumes tokens.  next is the index of the token that is next           *)
(* unconsumed; of every mark taken, k is that index at the time and n      *)
(* counts the tokens consumed since.                                       *)
(***************************************************************************)
MaxMarks == 2

MarkUnits ==
    {h \o o \o b : h \in Heads,
                   o \in {<<>>, <<"[", "a", " ", "=", "1", "]">>},
                   b \in {<<"{", "}">>, TwoBodies}}

InitMark ==
    /\ rsv \in {[p |-> NewResolver(lexed, lexed.definitions[1]),
                 next |-> lexed.definitions[1].idx + 1,
                 marks |-> <<>>] :
                    lexed \in {transform(NewConverter(gs)) : gs \in MarkUnits}}
    /\ conv = Idle
    /\ tkz = Idle
    /\ prs = Idle

\* the parser after a call that consumed c tokens; an Err the call returned
\* is dropped by the caller
Consumed(s, q, c) ==
    [s EXCEPT !.p = [q EXCEPT !.err = NoError],
              !.next = @ + c,
              !.marks = [j \in 1 .. Len(@) |-> [@[j] EXCEPT !.n = @ + c]]]

\* ResExpParser::mark
TakeMark ==
    /\ rsv # Idle
    /\ Len(rsv.marks) < MaxMarks
    /\ rsv' = [rsv EXCEPT !.marks = Append(@, [m |-> mark(rsv.p),
                                               k |-> rsv.next, n |-> 0])]
    /\ UNCHANGED <<conv, tkz, prs>>

\* ResExpParser::advance: one token, none at the end of the tokens
Advance ==
    /\ rsv # Idle
    /\ rsv' = Consumed(rsv, ResExp_advance(rsv.p),
                       IF rsv.next < Len(rsv.p.tokens) THEN 1 ELSE 0)
    /\ rsv' # rsv
    /\ UNCHANGED <<conv, tkz, prs>>

\* ResExpParser::skip_trivia: the trivia up to the next token that is none
SkipTrivia ==
    /\ rsv # Idle
    /\ rsv' = Consumed(rsv, skip_trivia(rsv.p),
                       NextSolid(rsv.p, rsv.next) - rsv.next)
    /\ rsv' # rsv
    /\ UNCHANGED <<conv, tkz, prs>>

\* ResExpParser::advance_to: the tokens up to the next one of the kind
AdvanceTo ==
    /\ rsv # Idle
    /\ \E kind \in {"Equal", "CloseBrace"} :
           rsv' = Consumed(rsv, advance_to(rsv.p, kind),
                           FindKind(rsv.p, rsv.next, kind) - rsv.next)
    /\ rsv' # rsv
    /\ UNCHANGED <<conv, tkz, prs>>

NextMark == TakeMark \/ Advance \/ SkipTrivia \/ AdvanceTo

SpecMark == InitMark /\ [][NextMark]_vars

\* C18: a mark taken when token k is next unconsumed, with n tokens consumed
\* afterwards, gives range_from_mark = k .. k + n; any mark taken earlier
\* gives start <= end.
C18_RangeFromMark ==
    rsv # Idle =>
        \A j \in 1 .. Len(rsv.marks) :
            /\ range_from_mark(rsv.p, rsv.marks[j].m)
                   = [start |-> rsv.marks[j].k,
                      end |-> rsv.marks[j].k + rsv.marks[j].n]
            /\ range_from_mark(rsv.p, rsv.marks[j].m).start
                   <= range_from_mark(rsv.p, rsv.marks[j].m).end

\* two marks, tokens consumed between them and after the second, some of
\* them by a call that consumed several at once
C18_Witness ==
    /\ rsv # Idle
    /\ Len(rsv.marks) = 2
    /\ rsv.marks[1].n > rsv.marks[2].n + 1
    /\ rsv.marks[2].n > 1

(***************************************************************************)
(* The ExpansionStore as a state machine: a step inserts one item; log     *)
(* keeps the items inserted, in the order of their insertion.              *)
(***************************************************************************)
MaxInserts == 3

StoreNames == {<<"\\", "a">>, <<"a">>, <<"c">>}

\* items as a Resolver leaves them, of every kind and name, two of each
StoreInputs ==
    {[ExpansionStoreItem_empty(kind) EXCEPT !.name = name, !.arg_count = n] :
        kind \in {"Macro", "Def", "Environment"}, name \in StoreNames,
        n \in {0, 1}}

InitStore ==
    /\ rsv = [store |-> ExpansionStore_default, log |-> <<>>]
    /\ conv = Idle
    /\ tkz = Idle
    /\ prs = Idle

\* ExpansionStore::insert of one item
StoreInsert ==
    /\ rsv # Idle
    /\ Len(rsv.log) < MaxInserts
    /\ \E item \in StoreInputs :
           rsv' = [store |-> ExpansionStore_insert(rsv.store, item),
                   log |-> Append(rsv.log, item)]
    /\ UNCHANGED <<conv, tkz, prs>>

NextStore == StoreInsert

SpecStore == InitStore /\ [][NextStore]_vars

\* the places of the log that hold an item of the name
InsertedAs(name) == {j \in 1 .. Len(rsv.log) : rsv.log[j].name = name}

\* the item of the name that was inserted last, None when there is none
LastInserted(name) ==
    IF InsertedAs(name) = {} THEN <<>>
    ELSE <<rsv.log[CHOOSE j \in InsertedAs(name) :
                       \A i \in InsertedAs(name) : i <= j]>>

\* the items of the log that are of a kind, in the order of the log
InsertedOfKind(kind) == SelectSeq(rsv.log, LAMBDA item : item.kind = kind)

\* C19: after any sequence of ExpansionStore::insert calls, get(name) returns
\* the item inserted last under that name, whatever its kind, and every
\* earlier item of the name is still in the collection of its kind,
\* unchanged and in the order of insertion.
C19_LastWriterWins ==
    rsv # Idle =>
        /\ \A name \in StoreNames :
               ExpansionStore_get(rsv.store, name) = LastInserted(name)
        /\ \A kind \in {"Macro", "Def", "Environment"} :
               StoreVec(rsv.store, kind) = InsertedOfKind(kind)

\* three items of one name, the first two of one kind and the last of another
C19_Witness ==
    /\ rsv # Idle
    /\ Len(rsv.log) = 3
    /\ rsv.log[1].name = rsv.log[3].name
    /\ rsv.log[2].name = rsv.log[3].name
    /\ rsv.log[1].kind = rsv.log[2].kind
    /\ rsv.log[2].kind # rsv.log[3].kind
    /\ rsv.log[1] # rsv.log[2]

\* the log in every order its items can be inserted in
InsertionOrders ==
    {[j \in 1 .. Len(rsv.log) |-> rsv.log[f[j]]] :
        f \in Permutations(1 .. Len(rsv.log))}

\* get answers alike on the store and on the store of every other order
SameInEveryOrder ==
    \A items \in InsertionOrders :
        \A name \in StoreNames :
            ExpansionStore_get(ExpansionStore_from_iter(items), name)
                = ExpansionStore_get(rsv.store, name)

\* C20: the store as observed through get(name) does not depend on the order
\* in which the resolved items are inserted: for any two serialized insertion
\* orders of the same items, get returns equal items for every name.
C20_OrderInsensitive == rsv # Idle => SameInEveryOrder

\* C20 amended: for items whose names are pairwise distinct, the store as
\* observed through get(name) does not depend on the order in which the
\* items are inserted.
C20_OrderInsensitiveDistinctNames ==
    rsv # Idle =>
        ((\A i, j \in 1 .. Len(rsv.log) :
              i # j => rsv.log[i].name # rsv.log[j].name)
            => SameInEveryOrder)

\* three items of distinct names, two of them of one kind
C20_Witness ==
    /\ rsv # Idle
    /\ Len(rsv.log) = 3
    /\ \A i, j \in 1 .. 3 : i # j => rsv.log[i].name # rsv.log[j].name
    /\ rsv.log[1].kind = rsv.log[2].kind
    /\ rsv.log[2].kind # rsv.log[3].kind

\* s is t or the beginning of t
IsPrefix(s, t) == Len(s) <= Len(t) /\ s = SubSeq(t, 1, Len(s))

InsideCrLf(input, offset) ==
    /\ 0 < offset
    /\ offset < Len(input)
    /\ input[offset] = "\r"
    /\ input[offset + 1] = "\n"

\* the newline units of the bytes of a span: every newline char is one,
\* a carriage return and the line feed after it are one together
NewlineUnits(input, start, n) ==
    Cardinality({k \in start + 1 .. start + n :
                    /\ input[k] \in {"\n", "\r", "U2029"}
                    /\ ~(k > start + 1 /\ input[k] = "\n" /\ input[k - 1] = "\r")})

\* no token begins or ends between a carriage return and its line feed
NoBoundaryInsideCrLf ==
    /\ ~InsideCrLf(tkz.input, tkz.start)
    /\ tkz.last.value \notin {"NotCalled", "None"} =>
           /\ ~InsideCrLf(tkz.input, tkz.last.start)
           /\ ~InsideCrLf(tkz.input, tkz.last.start + tkz.last.len)

\* a Newline token holds one newline unit; a Break token holds two or more,
\* or a paragraph separator
CrLfIsOneNewline ==
    /\ tkz.last.value = "Newline" =>
           NewlineUnits(tkz.input, tkz.last.start, tkz.last.len) = 1
    /\ tkz.last.value = "Break" =>
           \/ NewlineUnits(tkz.input, tkz.last.start, tkz.last.len) >= 2
           \/ \E k \in tkz.last.start + 1 .. tkz.last.start + tkz.last.len :
                  tkz.input[k] = "U2029"

\* C22: in every state of the tokenizer DFA a carriage return immediately
\* followed by a line feed is consumed as one two-byte step: the tokenizer
\* never stands between the two, no token boundary falls between them, and
\* the two count as one newline unit (alone they yield Newline, not Break).
C22_CrLfOneStep ==
    tkz # Idle /\ ~tkz.panic =>
        /\ ~InsideCrLf(tkz.input, tkz.start + tkz.token_len)
        /\ NoBoundaryInsideCrLf
        /\ CrLfIsOneNewline

\* C22 amended: in every state of the tokenizer DFA but UnicodeEscapeValue
\* (Top, Whitespace, Break and Newline among them) a carriage return
\* immediately followed by a line feed is consumed as one two-byte step; in
\* every state no token boundary falls between the two, and the two count as
\* one newline unit (alone they yield Newline, not Break).
C22_CrLfOneUnit ==
    tkz # Idle /\ ~tkz.panic =>
        /\ tkz.state.name # "UnicodeEscapeValue" =>
               ~InsideCrLf(tkz.input, tkz.start + tkz.token_len)
        /\ NoBoundaryInsideCrLf
        /\ CrLfIsOneNewline

\* a Newline token of a carriage return and a line feed, returned after
\* another token
C22_Witness ==
    /\ tkz # Idle
    /\ tkz.last.value = "Newline"
    /\ tkz.last.len = 2
    /\ tkz.last.start > 0
    /\ tkz.input[tkz.last.start + 1] = "\r"

\* the two letters at the byte offset are an entry of the unit table, and a
\* non-letter or the end of the input follows them
UnitAt(input, offset) ==
    /\ offset + 2 <= Len(input)
    /\ <<input[offset + 1], input[offset + 2]>> \in UNIT_TABLE
    /\ offset + 2 = Len(input) \/ ~char_is_alphabetic(input[offset + 3])

\* C23: when a completed number is followed directly by a two-letter entry
\* of the unit table that is itself followed by a non-letter or the end of
\* the input, the tokenizer emits a Unit token covering exactly those two
\* letters; for this the unit flag is true in the Top state reached right
\* after the number is emitted.
C23_UnitAfterNumber ==
    /\ [][tkz'.last # tkz.last /\ tkz'.last.value \in {"Integer", "Float"}
              => tkz'.state = Top(TRUE)]_vars
    /\ [][(/\ tkz'.last # tkz.last
           /\ tkz.last.value \in {"Integer", "Float"}
           /\ tkz'.last.value \notin {"None", "NotCalled"}
           /\ UnitAt(tkz.input, tkz.last.start + tkz.last.len))
              => tkz'.last = Item("Unit", tkz.last.start + tkz.last.len, 2)]_vars

\* the bytes of the input from the offset on that are ASCII letters, up to
\* the first byte that is none
RECURSIVE AsciiRun(_, _)
AsciiRun(input, offset) ==
    IF offset < Len(input) /\ input[offset + 1] \in AsciiLetters
    THEN 1 + AsciiRun(input, offset + 1)
    ELSE 0

\* the step returns a token
TokenReturned ==
    /\ tkz' # tkz
    /\ tkz'.iter = 0
    /\ tkz'.last.value \notin {"None", "NotCalled"}

\* C24: at top level the tokenizer emits a maximal run of ASCII letters as
\* one AWord token, and a word that starts with a non-ASCII letter as one
\* non-empty UWord token covering its letters: a word token that begins at
\* an ASCII letter is the AWord of the run of ASCII letters there, and any
\* other word token is a non-empty UWord that begins at a letter.
C24_Words ==
    [][(TokenReturned /\ tkz'.last.value \in {"AWord", "UWord"})
          => /\ tkz'.last.start < Len(tkz.input)
             /\ (tkz.input[tkz'.last.start + 1] \in AsciiLetters)
                    => (tkz'.last = Item("AWord", tkz'.last.start,
                                        AsciiRun(tkz.input, tkz'.last.start)))
             /\ (tkz.input[tkz'.last.start + 1] \notin AsciiLetters)
                    => /\ tkz'.last.value = "UWord"
                       /\ tkz'.last.len > 0
                       /\ char_is_alphabetic(tkz.input[tkz'.last.start + 1])]_vars

(***************************************************************************)
(* Macro-parameter tokens (SpecClassify).  A syntax token whose slice      *)
(* starts with `#` was started by Converter::token on a NumSign lexical    *)
(* token, that is by Converter::raw.                                       *)
(***************************************************************************)
\* the byte at 0-based offset `at` of the text, NoChar past its end
ByteAt(c, at) == IF at < Len(c.bs) THEN c.bs[at + 1] ELSE NoChar

\* `#` and a digit: SimpleMacroExpansionToken over `#` and exactly the number
SimpleAt(c, k) ==
    /\ c.tokens[k] = "SimpleMacroExpansionToken"
    /\ \A at \in c.start[k] + 1 .. slice_end(c, k) - 1 : ByteAt(c, at) \in Digits
    /\ ByteAt(c, slice_end(c, k)) \notin Digits

\* `#` and an ASCII letter: ComplexMacroExpansionToken over `#` and a name
ComplexAt(c, k) ==
    /\ c.tokens[k] = "ComplexMacroExpansionToken"
    /\ \A at \in c.start[k] + 1 .. slice_end(c, k) - 1 :
           ByteAt(c, at) \in AsciiLetters \cup Digits \cup {"_"}

\* the bare NumSign over `#` alone
BareAt(c, k) == c.tokens[k] = "NumSign" /\ slice_end(c, k) = c.start[k] + 1

\* a turn of convert's loop that finds `#`: Converter::token calls raw
RawTurn == ConvertToken /\ first_kind(conv) = "NumSign"

\* the turn emitted one token, which starts at the `#`
OneTokenAt(c, d) ==
    /\ Len(d.tokens) = Len(c.tokens) + 1
    /\ d.start[Len(d.tokens)] = c.position

RECURSIVE NewlineRun(_, _)
NewlineRun(c, j) == IF KindAt(c, j + 1) = "Newline" THEN NewlineRun(c, j + 1) ELSE j

\* a turn of convert's loop that finds a Newline lexical token
NewlineTurn == ConvertToken /\ first_kind(conv) = "Newline"

\* no two adjacent syntax tokens are both Newline or Break
NoAdjacentNewlines ==
    \A k \in 1 .. Len(conv.tokens) - 1 :
        ~(conv.tokens[k] \in {"Newline", "Break"} /\ conv.tokens[k + 1] \in {"Newline", "Break"})

LastByte(c, k) ==
    IF slice_end(c, k) > c.start[k] THEN c.bs[slice_end(c, k)] ELSE NoChar

\* C27: no Command or Variable token emitted has a source slice that ends in
\* `_` or `:`.
C27_NoTrailingSeparator ==
    \A k \in 1 .. Len(conv.tokens) :
        conv.tokens[k] \in {"Command", "Variable"} => LastByte(conv, k) \notin {"_", ":"}

\* a turn of convert's loop that finds a backslash and an ASCII word after it
NamedCommandTurn ==
    /\ ConvertToken
    /\ first_kind(conv) = "CommandIdent"
    /\ KindAt(conv, conv.i + 2) = "AWord"

\* the lexical index of a `:` after the name that cannot continue it: a single
\* `:` that forms no `::`, or the `:` right after a `::`; 0 when there is none
OffendingColon(c) ==
    IF KindAt(c, c.i + 3) # "Colon" THEN 0
    ELSE IF KindAt(c, c.i + 4) # "Colon" THEN c.i + 3
    ELSE IF KindAt(c, c.i + 5) = "Colon" THEN c.i + 5
    ELSE 0

\* the turn added an Error token and recorded an error at its index
ErrorAdded(c, d) ==
    /\ Len(d.errors) = Len(c.errors) + 1
    /\ d.errors[Len(d.errors)].idx + 1 \in Len(c.tokens) + 1 .. Len(d.tokens)
    /\ d.tokens[d.errors[Len(d.errors)].idx + 1] = "Error"

\* C28: when a command name is directly followed by a `:` that cannot
\* continue the name (a single `:` not forming `::`, or a `:` right after a
\* `::` separator), the classifier emits an Error token, records an error,
\* and resumes at the offending character (at the `:` or, when the Error
\* token covers it, right after it).
C28_TrailingColonError ==
    [][(NamedCommandTurn /\ OffendingColon(conv) # 0) =>
          /\ ErrorAdded(conv, conv')
          /\ conv'.i \in {OffendingColon(conv) - 1, OffendingColon(conv)}]_vars

\* the lexical index of the first token at or after j that is no AWord, Number
\* or Underscore a name token follows
RECURSIVE NameEnd(_, _)
NameEnd(c, j) ==
    IF KindAt(c, j) \in {"AWord", "Number"} THEN NameEnd(c, j + 1)
    ELSE IF KindAt(c, j) = "Underscore"
            /\ KindAt(c, j + 1) \in {"AWord", "Number", "Underscore"}
        THEN NameEnd(c, j + 1)
    ELSE j

\* the name that starts the turn is followed by a `_` that no ASCII word,
\* number, underscore or colon follows
TrailingUnderscore(c) ==
    /\ KindAt(c, NameEnd(c, c.i + 2)) = "Underscore"
    /\ KindAt(c, NameEnd(c, c.i + 2) + 1) \notin {"AWord", "Number", "Underscore", "Colon"}

\* a turn of convert's loop at the `_` a command token has just left out
LeftOutTurn ==
    /\ ConvertToken
    /\ first_kind(conv) = "Underscore"
    /\ second_kind(conv) \notin {"AWord", "Number", "Underscore", "Colon"}
    /\ conv.tokens # <<>>
    /\ conv.tokens[Len(conv.tokens)] \in CommandKinds

MaxRingItems == 3

RingItems ==
    <<[value |-> "t1", len |-> 1], [value |-> "t2", len |-> 1],
      [value |-> "t3", len |-> 1], [value |-> "t4", len |-> 1]>>

\* what a read of unwritten memory may give
Garbage == {RingItems[k] : k \in 1 .. MaxRingItems} \cup {[value |-> "junk", len |-> 0]}

\* the arguments of peek_nth: every n the items can answer, the last slot,
\* and one past N
PeekArgs == 0 .. MaxRingItems \cup {MAX_LOOKAHEAD - 1, MAX_LOOKAHEAD}

\* the slots the `while let` loop of peek_nth writes: one per item taken
SlotsWritten(b, taken) == {wrap_add(b.end, k) : k \in 1 .. taken}

InitRing ==
    /\ prs \in {[ring |-> NewRingBufferedIterator(SubSeq(RingItems, 1, n)),
                 source |-> SubSeq(RingItems, 1, n), handed |-> <<>>,
                 ended |-> FALSE, live |-> {}, wild |-> FALSE, peek_ok |-> TRUE]
                : n \in 0 .. MaxRingItems}
    /\ conv = Idle
    /\ tkz = Idle
    /\ rsv = Idle

\* the item the (n+1)-th following call of next is to return
Following(p, n) ==
    IF Len(p.handed) + n + 1 <= Len(p.source)
        THEN p.source[Len(p.handed) + n + 1] ELSE Nothing

\* RingBufferedIterator::peek_nth (peek is peek_nth(0))
RingPeekNth ==
    /\ prs # Idle
    /\ \E n \in PeekArgs, given \in Garbage :
        LET r == peek_nth(prs.ring, n)
            live == prs.live \cup
                        SlotsWritten(prs.ring.buffer,
                                     Len(prs.ring.iter) - Len(r.it.iter))
            slot == wrap_add(r.it.buffer.start, n)
            read == n < capacity /\ n < len(r.it.buffer)
            ret == IF r.ret = Uninit THEN given ELSE r.ret
        IN  /\ ~r.overflow
            /\ r.ret # Uninit => given = [value |-> "junk", len |-> 0]
            /\ prs' = [prs EXCEPT !.ring = r.it,
                                  !.live = live,
                                  !.wild = @ \/ (read /\ slot \notin live),
                                  !.peek_ok = (ret = Following(prs, n))]
    /\ UNCHANGED <<conv, tkz, rsv>>

\* RingBufferedIterator::next
RingNext ==
    /\ prs # Idle
    /\ ~prs.ended
    /\ \E given \in Garbage :
        LET r == RingBufferedIterator_next(prs.ring)
            read == ~is_empty(prs.ring.buffer)
            slot == prs.ring.buffer.start
            ret == IF r.ret = Uninit THEN given ELSE r.ret
        IN  /\ r.ret # Uninit => given = [value |-> "junk", len |-> 0]
            /\ prs' = [prs EXCEPT !.ring = r.it,
                                  !.handed = IF ret = Nothing THEN @ ELSE Append(@, ret),
                                  !.ended = (ret = Nothing),
                                  !.live = IF read THEN @ \ {slot} ELSE @,
                                  !.wild = @ \/ (read /\ slot \notin prs.live)]
    /\ UNCHANGED <<conv, tkz, rsv>>

NextRing == RingPeekNth \/ RingNext

SpecRing == InitRing /\ [][NextRing]_vars

\* C30: for every order of peek_nth(n) (n < N) and next() calls, next()
\* returns the items of the wrapped iterator in order, none skipped and none
\* repeated; peek_nth(n) returns what the (n+1)-th following next() returns;
\* every value handed out is read from a slot that enqueue wrote and that has
\* not been dequeued since.
C30_BufferedIteratorRefines ==
    /\ IsPrefix(prs.handed, prs.source)
    /\ prs.ended => prs.handed = prs.source
    /\ prs.peek_ok
    /\ ~prs.wild

(***************************************************************************)
(* resolve(lexed) over definitions whose name group varies (SpecName): a   *)
(* \newcommand or \def, then a name group that is empty, blank, holds a    *)
(* word, holds a command, or is a command without braces, then a count     *)
(* block and a body.  The steps are those of SpecResolve.                  *)
(***************************************************************************)
NameKeywords ==
    { <<"\\", "n", "e", "w", "c", "o", "m", "m", "a", "n", "d">>,
      <<"\\", "d", "e", "f">> }

NameGroups ==
    { <<"{", "}">>, <<"{", " ", "}">>, <<"{", "a", "}">>, <<"{", "\\", "a", "}">>,
      <<"{", " ", "\\", "a", " ", "}">>, <<"{", "\\", "a", "1", "}">>,
      <<"\\", "a">>, <<>> }

NameBodies == { <<"{", "}">>, <<"{", "#", "1", "}">>, <<"{", "a">> }

NameUnits ==
    {k \o g \o a \o b :
        k \in NameKeywords, g \in NameGroups, a \in ArgBlocks, b \in NameBodies}

InitName ==
    /\ rsv \in {NewResolve(transform(NewConverter(gs))) : gs \in NameUnits}
    /\ conv = Idle
    /\ tkz = Idle
    /\ prs = Idle

SpecName == InitName /\ [][NextResolve]_vars

\* the Command token inside the braces that follow the head at token d: its
\* index, -1 when the head is not followed by a brace group or the group
\* holds no Command token
NamedCommandAt(l, d) ==
    LET open == NextSolid(l, d + 1)
        close == FindKind(l, open + 1, "CloseBrace")
        inside == {i \in open + 1 .. close - 1 : TokenAt(l, i) = "Command"}
    IN  IF TokenAt(l, open) = "OpenBrace" /\ close < Len(l.tokens) /\ inside # {}
        THEN CHOOSE i \in inside : \A j \in inside : i <= j
        ELSE -1

\* C31 for one definition at token d with outcome o
NameIsCommandText(l, d, o) ==
    o.err.kind = "Ok" =>
        /\ NamedCommandAt(l, d) >= 0
        /\ o.item.name = iter_text(l, index_range(NamedCommandAt(l, d))).text
        /\ o.item.name # <<>>

\* C31: a Macro or Def item is stored only if a Command token was found
\* inside the braces that follow the definition head, and its name is exactly
\* that token's source text; a definition whose name group is empty or holds
\* no command name yields an error and never a store entry with an empty
\* name.
C31_NamedByCommand ==
    rsv # Idle =>
        /\ \A k \in 1 .. rsv.next :
               rsv.lexed.definitions[k].kind \in {"Macro", "Def"} =>
                   NameIsCommandText(rsv.lexed, rsv.lexed.definitions[k].idx, OutcomeOf(k))
        /\ \A k \in 1 .. Len(StoreItems(rsv.store)) :
               StoreItems(rsv.store)[k].kind \in {"Macro", "Def"} =>
                   StoreItems(rsv.store)[k].name # <<>>

(***************************************************************************)
(* resolve(lexed) over definitions cut short (SpecCut): every text that is *)
(* a complete definition (a head, a count block, a block of optional       *)
(* arguments, and the one body of a command or the two of an environment)  *)
(* and every text that such a definition starts with.  A text is cut short *)
(* when it is not itself one of the complete definitions: it ends before   *)
(* the `}` that closes the last body.  The steps are those of SpecResolve. *)
(***************************************************************************)
CutOptBlocks == {<<>>, <<"[", "a", " ", "=", "1", "]">>, <<"[", "a", "]">>}

ClosedBodies == { <<"{", "}">>, <<"{", "#", "1", "}">>, <<"{", "#", "a", "{", "#", "a", "}", "}">> }

\* the bodies a definition with this head asks for
BodiesFor(h) ==
    IF h[3] = "e" /\ h[5] = "e"
    THEN {b \o c : b \in ClosedBodies, c \in {<<"{", "}">>, <<" ", "{", "#", "1", "}">>}}
    ELSE ClosedBodies

CompleteDefinitions ==
    UNION {{h \o a \o o \o b : a \in ArgBlocks, o \in CutOptBlocks, b \in BodiesFor(h)}
              : h \in Heads}

\* the texts a complete definition starts with, itself among them
RECURSIVE Prefixes(_)
Prefixes(d) == IF d = <<>> THEN {} ELSE {d} \cup Prefixes(SubSeq(d, 1, Len(d) - 1))

CutUnits == UNION {Prefixes(d) : d \in CompleteDefinitions}

\* the text of the unit ends before the definition is complete
CutShort(l) == l.bs \notin {SrcBytes(d) : d \in CompleteDefinitions}

InitCut ==
    /\ rsv \in {NewResolve(transform(NewConverter(gs))) : gs \in CutUnits}
    /\ conv = Idle
    /\ tkz = Idle
    /\ prs = Idle

SpecCut == InitCut /\ [][NextResolve]_vars

C33_NewlineTokens ==
    (tkz # Idle /\ ~tkz.panic) =>
        /\ tkz.last.value = "Break" =>
               NewlineUnits(tkz.input, tkz.last.start, tkz.last.len) >= 2
        /\ tkz.last.value = "Newline" =>
               NewlineUnits(tkz.input, tkz.last.start, tkz.last.len) = 1
        /\ tkz.last.value = "Whitespace" =>
               NewlineUnits(tkz.input, tkz.last.start, tkz.last.len) = 0

\* C34: every token the tokenizer returns other than Eof has length >= 1, so
\* each returned token consumes input: also for a `#`, for a `.` followed by
\* a digit, for a letter that is not ASCII, and for the character after a
\* `::` inside a command name.
C34_TokensConsume ==
    (tkz # Idle /\ ~tkz.panic /\ tkz.last.value \notin {"NotCalled", "None", "Eof"}) =>
        tkz.last.len >= 1

(***************************************************************************)
(* Token extents and the error records of the classifier (SpecClassify).   *)
(***************************************************************************)
\* C35: every syntax token of the classifier other than Eof covers at least
\* one byte of the source (its offset is strictly smaller than the next
\* token's offset), also for tokens emitted after a command or variable
\* error and at the end of input.
C35_TokensCoverBytes ==
    \A k \in 1 .. Len(conv.tokens) :
        conv.tokens[k] # "Eof" => conv.start[k] < slice_end(conv, k)


(***************************************************************************)
(* The classifier over texts with several malformed names (SpecErrors):    *)
(* LexedStr::new(input) for every input of at most MaxErrorPieces pieces,  *)
(* most of them a malformed command or variable head.  The steps are those *)
(* of SpecClassify.                                                        *)
(***************************************************************************)
MaxErrorPieces == 3

ErrorPieces ==
    { <<"\\", " ">>, <<"\\", "U00E4">>, <<"\\", "@", "=">>,
      <<"\\", "a", ":", ":", ":">>, <<"\\", "@", "a">>, <<"a">>, <<" ">>, <<"\\">> }

RECURSIVE ErrorTexts(_)
ErrorTexts(n) ==
    IF n = 0 THEN {<<>>}
    ELSE LET shorter == ErrorTexts(n - 1) IN
         shorter \cup {t \o p : t \in shorter, p \in ErrorPieces}

InitErrors ==
    /\ conv \in {NewConverter(gs) : gs \in ErrorTexts(MaxErrorPieces)}
    /\ tkz = Idle
    /\ prs = Idle
    /\ rsv = Idle

SpecErrors == InitErrors /\ [][NextClassify]_vars

\* the indices (from 0) of the Error tokens, in increasing order
ErrorIndices(c) == Increasing({k - 1 : k \in {j \in 1 .. Len(c.tokens) : c.tokens[j] = "Error"}})

\* C36: in every classifier result the number of Error tokens equals the
\* number of recorded PreparseErrors, and the i-th recorded error's idx is the
\* index of the i-th Error token in the token sequence.
C36_ErrorsMatchTokens ==
    /\ Len(conv.errors) = Len(ErrorIndices(conv))
    /\ \A i \in 1 .. Len(conv.errors) : conv.errors[i].idx = ErrorIndices(conv)[i]

\* a finished classification with three Error tokens, not adjacent, and
\* errors of two kinds
C36_Witness ==
    /\ conv.done
    /\ Len(conv.errors) = 3
    /\ conv.errors[1].kind # conv.errors[2].kind
    /\ conv.errors[2].idx > conv.errors[1].idx + 1

(***************************************************************************)
(* crates/lexer: the Cursor under tokenize (SpecLex).  tkz holds the       *)
(* Cursor (gs: the clusters of the input, at: the index of next_cluster,   *)
(* token_len, buf), the kind of the token that advance_token is scanning   *)
(* ("None" between two calls) with the index upto of the first cluster     *)
(* that is not part of it, the index since of the first cluster not yet    *)
(* bumped at the last reset_token_len, the tokens yielded by the iterator  *)
(* and whether it has returned None.  A step is one bump of the Cursor,    *)
(* or the end of advance_token.                                            *)
(***************************************************************************)
MaxClusters == 4

LexClusters == {"a", "U00E4", " ", "\n", "\r\n", "%", "1", "{"}

RECURSIVE ClusterTexts(_)
ClusterTexts(n) ==
    IF n = 0 THEN {<<>>}
    ELSE LET shorter == ClusterTexts(n - 1) IN
         shorter \cup {t \o <<g>> : t \in shorter, g \in LexClusters}

\* a bump that counts the chars of the cluster
Cursor_bump_counting_chars(cur) ==
    IF cur.at > Len(cur.gs) THEN [cur EXCEPT !.buf = <<>>]
    ELSE [cur EXCEPT !.token_len = @ + NChars(cur.gs[cur.at]),
                     !.at = @ + 1,
                     !.buf = <<cur.gs[cur.at]>>]

\* Cursor::bump: at the end of the input nothing is counted
Cursor_bump(cur) ==
    IF cur.at > Len(cur.gs) THEN [cur EXCEPT !.buf = <<>>]
    ELSE [cur EXCEPT !.token_len = @ + NBytes(cur.gs[cur.at]),
                     !.at = @ + 1,
                     !.buf = <<cur.gs[cur.at]>>]

\* tokenize(input): Cursor::new and the iterator before its first next()
InitLex ==
    /\ tkz \in {[cur |-> [gs |-> gs, at |-> 1, token_len |-> 0, buf |-> <<>>],
                 kind |-> "None", upto |-> 1, since |-> 1,
                 yielded |-> <<>>, ended |-> FALSE] : gs \in ClusterTexts(MaxClusters)}
    /\ conv = Idle
    /\ prs = Idle
    /\ rsv = Idle

\* advance_token: the first bump finds a cluster, token_kind chooses the scan
LexBegin ==
    /\ tkz.kind = "None"
    /\ tkz.cur.at <= Len(tkz.cur.gs)
    /\ LET t == token_kind(tkz.cur.gs, tkz.cur.at) IN
       tkz' = [tkz EXCEPT !.cur = Cursor_bump(@), !.kind = t.kind, !.upto = t.next]
    /\ UNCHANGED <<conv, prs, rsv>>

\* one more bump of the scan (eat_while, comment, number, word, ascii_word)
LexScan ==
    /\ tkz.kind # "None"
    /\ tkz.cur.at < tkz.upto
    /\ tkz' = [tkz EXCEPT !.cur = Cursor_bump(@)]
    /\ UNCHANGED <<conv, prs, rsv>>

\* advance_token: Token::new(kind, token_len()), reset_token_len; the
\* iterator yields the token
LexEmit ==
    /\ tkz.kind # "None"
    /\ tkz.cur.at = tkz.upto
    /\ tkz' = [tkz EXCEPT !.yielded = Append(@, [kind |-> tkz.kind, len |-> tkz.cur.token_len]),
                          !.cur.token_len = 0,
                          !.since = tkz.cur.at,
                          !.kind = "None"]
    /\ UNCHANGED <<conv, prs, rsv>>

\* advance_token: the first bump finds the end of the input; the Eof token
\* is turned into None by the iterator
LexEnd ==
    /\ tkz.kind = "None"
    /\ tkz.cur.at > Len(tkz.cur.gs)
    /\ tkz' = [tkz EXCEPT !.cur = Cursor_bump(@), !.ended = TRUE]
    /\ UNCHANGED <<conv, prs, rsv>>

NextLex == LexBegin \/ LexScan \/ LexEmit \/ LexEnd

SpecLex == InitLex /\ [][NextLex]_vars

\* the sum of the lengths of the first k tokens
RECURSIVE LensUpTo(_, _)
LensUpTo(ts, k) == IF k = 0 THEN 0 ELSE LensUpTo(ts, k - 1) + ts[k].len

\* the byte offsets at which a cluster of gs starts, and the end
ClusterOffsets(gs) == {token_len(gs, 1, k) : k \in 1 .. Len(gs) + 1}

LexerCovers ==
    /\ \A k \in 1 .. Len(tkz.yielded) :
          /\ tkz.yielded[k].len >= 1
          /\ tkz.yielded[k].kind # "Eof"
          /\ LensUpTo(tkz.yielded, k) \in ClusterOffsets(tkz.cur.gs)
    /\ tkz.ended => LensUpTo(tkz.yielded, Len(tkz.yielded)) = Len(SrcBytes(tkz.cur.gs))
    /\ tkz.ended => tkz.yielded = tokenize(tkz.cur.gs)
    /\ tkz.cur.token_len = token_len(tkz.cur.gs, tkz.since, tkz.cur.at)

\* C37: the tokens that lexer::tokenize yields have byte lengths that sum
\* to the length of the input, each is at least 1 byte long, none is Eof,
\* and each ends where a grapheme cluster ends; the consumed length of the
\* Cursor is the number of bytes of the clusters bumped since the last
\* reset, and the bump at the end of the input leaves it unchanged.
C37_LexerCoversInput ==
    /\ []LexerCovers
    /\ [][LexEnd => (tkz'.cur.token_len = tkz.cur.token_len /\ tkz'.yielded = tkz.yielded)]_vars

\* a text with a two-byte letter and a \r\n has been tokenized to its end
C37_Witness ==
    /\ tkz.ended
    /\ tkz.cur.gs = <<"U00E4", "a", "\r\n", " ">>
    /\ Len(tkz.yielded) = 4

\* the index of the cluster of gs that starts at byte offset off
ClusterAt(gs, off) == CHOOSE k \in 1 .. Len(gs) + 1 : token_len(gs, 1, k) = off

\* the index of the first cluster of the n-th yielded token
FirstCluster(n) == ClusterAt(tkz.cur.gs, LensUpTo(tkz.yielded, n - 1))

\* the index of the first cluster after the n-th yielded token
ClusterAfter(n) == ClusterAt(tkz.cur.gs, LensUpTo(tkz.yielded, n))

\* C38: in lexer::tokenize a \r\n that follows a word (AWord or Word) ends
\* the word and is one separate Newline token of length 2.
C38_CrLfEndsWord ==
    tkz.ended =>
        \A n \in 1 .. Len(tkz.yielded) :
            (/\ tkz.yielded[n].kind \in {"AWord", "Word"}
             /\ \E k \in FirstCluster(n) + 1 .. Len(tkz.cur.gs) :
                   /\ tkz.cur.gs[k] = "\r\n"
                   /\ \A h \in FirstCluster(n) .. k - 1 : tkz.cur.gs[h] = tkz.cur.gs[FirstCluster(n)])
            => /\ n < Len(tkz.yielded)
               /\ tkz.cur.gs[ClusterAfter(n)] = "\r\n"
               /\ tkz.yielded[n + 1] = [kind |-> "Newline", len |-> 2]

\* the AWord half of C38: an AWord before a \r\n ends at it
CrLfEndsAWord ==
    tkz.ended =>
        \A n \in 1 .. Len(tkz.yielded) :
            (/\ tkz.yielded[n].kind = "AWord"
             /\ \E k \in FirstCluster(n) + 1 .. Len(tkz.cur.gs) :
                   /\ tkz.cur.gs[k] = "\r\n"
                   /\ \A h \in FirstCluster(n) .. k - 1 : tkz.cur.gs[h] = "a")
            => /\ n < Len(tkz.yielded)
               /\ tkz.cur.gs[ClusterAfter(n)] = "\r\n"
               /\ tkz.yielded[n + 1] = [kind |-> "Newline", len |-> 2]

\* the first cluster at or after j that ends a line, or the end of the input
RECURSIVE LineEnd(_, _)
LineEnd(gs, j) ==
    IF j > Len(gs) THEN j
    ELSE IF gs[j] \in {"\n", "\r\n"} THEN j + 1
    ELSE LineEnd(gs, j + 1)

\* every comment token runs through the first newline after its %
CommentsRunThroughNewline ==
    \A n \in 1 .. Len(tkz.yielded) :
        tkz.yielded[n].kind \in {"Comment", "AComment"} =>
            /\ tkz.cur.gs[FirstCluster(n)] = "%"
            /\ ClusterAfter(n) = LineEnd(tkz.cur.gs, FirstCluster(n) + 1)

\* C39: lexer::tokenize classifies a comment as AComment only if it starts
\* with %%; a comment that starts with a single % is a Comment even when
\* another % occurs later on the line; the comment token runs through the
\* first following newline or to the end of the input.
C39_AnnotatedOnlyByStart ==
    /\ CommentsRunThroughNewline
    /\ \A n \in 1 .. Len(tkz.yielded) :
          tkz.yielded[n].kind \in {"Comment", "AComment"} =>
              (tkz.yielded[n].kind = "AComment"
                  <=> /\ FirstCluster(n) + 1 < ClusterAfter(n)
                      /\ tkz.cur.gs[FirstCluster(n) + 1] = "%")

(***************************************************************************)
(* RingBufferedIterator over iterators long enough to fill the buffer      *)
(* (SpecFill): N = MAX_LOOKAHEAD and at least N items.  The steps are      *)
(* those of SpecRing.                                                      *)
(***************************************************************************)
MaxLongItems == 10

LongItems(n) == [k \in 1 .. n |-> RingItems[(k % MaxRingItems) + 1]]

InitFill ==
    /\ prs \in {[ring |-> NewRingBufferedIterator(LongItems(n)),
                 source |-> LongItems(n), handed |-> <<>>,
                 ended |-> FALSE, live |-> {}, wild |-> FALSE, peek_ok |-> TRUE]
                : n \in MAX_LOOKAHEAD .. MaxLongItems}
    /\ conv = Idle
    /\ tkz = Idle
    /\ rsv = Idle

SpecFill == InitFill /\ [][NextRing]_vars

\* the number of items pulled from the wrapped iterator so far
Pulled == Len(prs.source) - Len(prs.ring.iter)

\* C40: with capacity N, peek_nth(n) for n >= N returns None and pulls
\* nothing from the wrapped iterator; for n < N it never enqueues into a
\* full buffer; the number of buffered items is the number of items pulled
\* minus the number handed out by next, it lies in 0 .. N, and is_full holds
\* exactly when it is N.
C40_BufferWithinCapacity ==
    /\ \A n \in capacity .. capacity + 2 :
          /\ peek_nth(prs.ring, n).ret = Nothing
          /\ peek_nth(prs.ring, n).it = prs.ring
    /\ \A n \in 0 .. capacity - 1 : ~peek_nth(prs.ring, n).overflow
    /\ len(prs.ring.buffer) = Pulled - Len(prs.handed)
    /\ len(prs.ring.buffer) \in 0 .. capacity
    /\ prs.ring.buffer.is_full <=> len(prs.ring.buffer) = capacity

\* the buffer is full for the second time: it was filled, items were handed
\* out, and a peek has filled it again across the end of the array
C40_Witness ==
    /\ prs.ring.buffer.is_full
    /\ Len(prs.handed) = 2
    /\ Pulled = capacity + 2
    /\ prs.ring.buffer.end = 2

====
